---- MODULE Spec2Model ----
(***************************************************************************)
(* A model of the soft real-time scheduler plug-ins of                     *)
(* lewisxin/scheduler-plugins: the SimpleDDL queue sort                    *)
(* (pkg/deadline), the deadline manager (pkg/rtpreemptive/deadline), the   *)
(* EDF queue sort (pkg/rtpreemptive) and the preemption manager            *)
(* (pkg/rtpreemptive/preemption).                                          *)
(*                                                                         *)
(* Time is counted in ticks of ten minutes.  An instant is a positive      *)
(* integer; 0 stands for the zero time.Time (IsZero).  Two reads of the    *)
(* clock that differ by any positive amount differ by at least one tick.   *)
(***************************************************************************)
EXTENDS Integers, Sequences, FiniteSets, TLC

VARIABLES
    now,          \* the wall clock (time.Now())
    pods,         \* pod objects: priority, creation timestamp, annotations
    podDeadlines, \* deadlineManager.podDeadlines of the plug-in (gocache, by UID)
    pmDeadlines,  \* podDeadlines of the preemption manager's own deadline manager
    pausedPods,   \* preemptionManager.pausedPods (gocache, by namespace/name)
    apiPause,     \* pause-pod annotation of each pod in the API server
    lsPause,      \* pause-pod annotation of each pod object in the pod lister
    op,           \* the last call made and what it returned
    podExecutions, \* laxityManager.podExecutions (gocache, by namespace/name)
    atlas,        \* the observation the ATLAS predictor was given last
    upserts       \* the calls of AddPodDeadline in progress, by caller

vars == <<now, pods, podDeadlines, pmDeadlines, pausedPods, apiPause, lsPause, op,
          podExecutions, atlas, upserts>>

----------------------------------------------------------------------------
(* Bounds of the model *)

MaxNow == 8
MaxOrderNow == 2
MaxCreation == 2

(* Program constants, in ticks of ten minutes *)

\* simpleddl.go: defaultDDLRelative = time.Minute * 10
SimpleDefaultDDLRelative == 1
\* deadline_manager.go: defaultDDLRelative = time.Hour * 24 * 30
defaultDDLRelative == 4320
\* deadline_manager.go: m.podDeadlines.Set(uid, ddl, time.Hour)
DeadlineTTL == 6
\* preemption_manager.go: m.pausedPods.Set(key, node, time.Hour)
PausedTTL == 6
\* the byte '/' of fmt.Sprintf("%s/%s", p.Namespace, p.Name)
Slash == 47

----------------------------------------------------------------------------
(* Pods *)

NumPods == 3
PodIds == 1..NumPods
\* Less is binary: the queue-sort specification compares these two pods
OrderPods == {1, 2}
Nodes == {"n1", "n2"}

\* the two priority classes of TestLess (lowPriority, highPriority)
Priorities == {0, 1}

NoAnn == "<none>"
\* values of the ddl annotation: absent, or a string handed to time.ParseDuration
DDLStrings == {"20m", "-20m", "abc"}
DDLValues == {NoAnn} \cup DDLStrings
PauseValues == {NoAnn, "true", "false"}

\* pod.UID; distinct pods have distinct UIDs
UID(p) == p
\* pod.Namespace and pod.Name as byte strings ('a' = 97)
Namespace(p) == <<97 + (p % 2)>>
PodName(p) == <<97 + (p \div 2)>>

\* core.GetNamespacedName / toCacheKey: namespace + "/" + name
GetNamespacedName(p) == Namespace(p) \o <<Slash>> \o PodName(p)

\* Go's < on strings: lexicographic on bytes, a proper prefix is smaller
RECURSIVE StrLess(_, _)
StrLess(s, t) ==
    IF t = <<>> THEN FALSE
    ELSE IF s = <<>> THEN TRUE
    ELSE IF Head(s) # Head(t) THEN Head(s) < Head(t)
    ELSE StrLess(Tail(s), Tail(t))

\* corev1helpers.PodPriority
PodPriority(p) == pods[p].prio

\* time.ParseDuration on the strings of the model
ParseDuration(s) ==
    CASE s = "20m"  -> [err |-> FALSE, d |-> 2]
      [] s = "-20m" -> [err |-> FALSE, d |-> -2]
      [] OTHER      -> [err |-> TRUE, d |-> 0]

----------------------------------------------------------------------------
(* SimpleDDL (pkg/deadline/simpleddl.go) *)

\* parseDDL(creationTime, p), the clock read as t
parseDDL(p, t) ==
    LET creationTime == pods[p].creation
        defaultDDL == creationTime + SimpleDefaultDDLRelative
        ddlStr == pods[p].ddl
        parsed == ParseDuration(ddlStr)
    IN  IF creationTime = 0 THEN t + SimpleDefaultDDLRelative
        ELSE IF ddlStr = NoAnn THEN defaultDDL
        ELSE IF parsed.err THEN defaultDDL
        ELSE IF parsed.d < 0 THEN defaultDDL
        ELSE creationTime + parsed.d

\* mutant: the tie on equal deadlines is not broken by the name
LessByDeadline_NoTieBreak(p1, p2, ddl1, ddl2) == ddl1 < ddl2

\* the comparison that ends both Less functions
LessByDeadline(p1, p2, ddl1, ddl2) ==
    IF ddl1 = ddl2
    THEN StrLess(GetNamespacedName(p1), GetNamespacedName(p2))
    ELSE ddl1 < ddl2

\* SimpleDDL.Less(p1, p2), the clock read as t1 for p1 and then as t2 for p2
SimpleLessResult(p1, p2, t1, t2) ==
    LET prio1 == PodPriority(p1)
        prio2 == PodPriority(p2)
    IN  IF prio1 # prio2
        THEN [ret |-> prio1 > prio2, parsed |-> 0, d1 |-> 0, d2 |-> 0]
        ELSE [ret |-> LessByDeadline(p1, p2, parseDDL(p1, t1), parseDDL(p2, t2)),
              parsed |-> 2, d1 |-> parseDDL(p1, t1), d2 |-> parseDDL(p2, t2)]

----------------------------------------------------------------------------
(* Deadline manager (pkg/rtpreemptive/deadline/deadline_manager.go) *)

\* gocache: an item is found while the clock has not passed its expiration
Found(cache, k) == k \in DOMAIN cache /\ ~(now > cache[k].exp)
FoundAt(cache, k, t) == k \in DOMAIN cache /\ ~(t > cache[k].exp)

\* gocache Set: store the value with its time to live
CacheSet(cache, k, v, t, ttl) ==
    [x \in DOMAIN cache \cup {k} |->
        IF x = k THEN [v |-> v, exp |-> t + ttl] ELSE cache[x]]

\* gocache Delete
CacheDelete(cache, k) == [x \in DOMAIN cache \ {k} |-> cache[x]]

\* gocache DeleteExpired
CacheDeleteExpired(cache, t) ==
    [x \in {y \in DOMAIN cache : ~(t > cache[y].exp)} |-> cache[x]]

\* mutant: a negative ddl is used as it stands
ParsePodDeadline_NegativeKept(p, t) ==
    LET creationTime == pods[p].creation
        parsed == ParseDuration(pods[p].ddl)
    IN  IF creationTime = 0 THEN t + defaultDDLRelative
        ELSE IF pods[p].ddl = NoAnn \/ parsed.err THEN creationTime + defaultDDLRelative
        ELSE creationTime + parsed.d

\* deadlineManager.ParsePodDeadline(pod), the clock read as t
ParsePodDeadline(p, t) ==
    LET creationTime == pods[p].creation
        defaultDDL == creationTime + defaultDDLRelative
        ddlStr == pods[p].ddl
        parsed == ParseDuration(ddlStr)
    IN  IF creationTime = 0 THEN t + defaultDDLRelative
        ELSE IF ddlStr = NoAnn THEN defaultDDL
        ELSE IF parsed.err THEN defaultDDL
        ELSE IF parsed.d < 0 THEN defaultDDL
        ELSE creationTime + parsed.d

\* deadlineManager.GetPodDeadline(pod) on the cache given, at instant t
GetPodDeadline(cache, p, t) ==
    IF FoundAt(cache, UID(p), t) THEN cache[UID(p)].v ELSE ParsePodDeadline(p, t)

\* mutant: the pod is parsed anew at every upsert
AddPodDeadline_Reparse(cache, p, t) ==
    [ret |-> ParsePodDeadline(p, t),
     cache |-> CacheSet(cache, UID(p), ParsePodDeadline(p, t), t, DeadlineTTL)]

\* deadlineManager.AddPodDeadline(pod): the deadline returned and the cache left
AddPodDeadline(cache, p, t) ==
    LET ddl == GetPodDeadline(cache, p, t)
    IN  [ret |-> ddl, cache |-> CacheSet(cache, UID(p), ddl, t, DeadlineTTL)]

\* deadlineManager.RemovePodDeadline(pod)
RemovePodDeadline(cache, p, t) ==
    CacheDeleteExpired(CacheDelete(cache, UID(p)), t)

----------------------------------------------------------------------------
(* EDFPreemptiveScheduling.Less (pkg/rtpreemptive/edf_preemptive_scheduling.go) *)

\* mutant: the deadlines are upserted before the priorities are compared
EDFLessResult_UpsertFirst(cache, p1, p2, t1, t2) ==
    LET a1 == AddPodDeadline(cache, p1, t1)
        a2 == AddPodDeadline(a1.cache, p2, t2)
    IN  IF PodPriority(p1) # PodPriority(p2)
        THEN [ret |-> PodPriority(p1) > PodPriority(p2), adds |-> 0,
              d1 |-> 0, d2 |-> 0, cache |-> a2.cache]
        ELSE [ret |-> LessByDeadline(p1, p2, a1.ret, a2.ret),
              adds |-> 2, d1 |-> a1.ret, d2 |-> a2.ret, cache |-> a2.cache]

\* Less(p1, p2): AddPodDeadline(p1) at t1, then AddPodDeadline(p2) at t2
EDFLessResult(cache, p1, p2, t1, t2) ==
    LET prio1 == PodPriority(p1)
        prio2 == PodPriority(p2)
        a1 == AddPodDeadline(cache, p1, t1)
        a2 == AddPodDeadline(a1.cache, p2, t2)
    IN  IF prio1 # prio2
        THEN [ret |-> prio1 > prio2, adds |-> 0, d1 |-> 0, d2 |-> 0, cache |-> cache]
        ELSE [ret |-> LessByDeadline(p1, p2, a1.ret, a2.ret),
              adds |-> 2, d1 |-> a1.ret, d2 |-> a2.ret, cache |-> a2.cache]

----------------------------------------------------------------------------
(* Calls.  Each records itself in op.  A call that reads the clock twice   *)
(* may see it advance between the reads.                                   *)

ClockReads(max) ==
    {tt \in (now..max) \X (now..max) : tt[1] <= tt[2] /\ tt[2] <= now + 1}

Tick ==
    /\ now < MaxNow
    /\ now' = now + 1
    /\ op' = [kind |-> "tick"]
    /\ UNCHANGED <<pods, podDeadlines, pmDeadlines, pausedPods, apiPause, lsPause, podExecutions, atlas, upserts>>

SimpleLess(p1, p2) ==
    \E tt \in ClockReads(MaxOrderNow) :
        LET r == SimpleLessResult(p1, p2, tt[1], tt[2])
        IN  /\ op' = [kind |-> "less", plugin |-> "simple", p1 |-> p1, p2 |-> p2,
                      ret |-> r.ret, calls |-> r.parsed]
            /\ now' = IF r.parsed = 0 THEN now ELSE tt[2]
            /\ UNCHANGED <<pods, podDeadlines, pmDeadlines, pausedPods, apiPause, lsPause, podExecutions, atlas, upserts>>

EDFLess(p1, p2) ==
    \E tt \in ClockReads(MaxOrderNow) :
        LET r == EDFLessResult(podDeadlines, p1, p2, tt[1], tt[2])
        IN  /\ op' = [kind |-> "less", plugin |-> "edf", p1 |-> p1, p2 |-> p2,
                      ret |-> r.ret, calls |-> r.adds]
            /\ podDeadlines' = r.cache
            /\ now' = IF r.adds = 0 THEN now ELSE tt[2]
            /\ UNCHANGED <<pods, pmDeadlines, pausedPods, apiPause, lsPause, podExecutions, atlas, upserts>>

\* a call of parseDDL / ParsePodDeadline on its own
SimpleParse(p) ==
    /\ op' = [kind |-> "parse", plugin |-> "simple", p |-> p, t |-> now,
              ret |-> parseDDL(p, now)]
    /\ UNCHANGED <<now, pods, podDeadlines, pmDeadlines, pausedPods, apiPause, lsPause, podExecutions, atlas, upserts>>

EDFParse(p) ==
    /\ op' = [kind |-> "parse", plugin |-> "edf", p |-> p, t |-> now,
              ret |-> ParsePodDeadline(p, now)]
    /\ UNCHANGED <<now, pods, podDeadlines, pmDeadlines, pausedPods, apiPause, lsPause, podExecutions, atlas, upserts>>

----------------------------------------------------------------------------
(* The queue-sort specification: two pods of any priority, creation time   *)
(* and ddl annotation, compared by both plug-ins.                          *)

EmptyCache == [x \in {} |-> 0]
NoOp == [kind |-> "init"]

OrderPodValues ==
    [prio : Priorities, creation : 0..MaxCreation, ddl : DDLValues, other : {FALSE}]
RestPod == [prio |-> 0, creation |-> 1, ddl |-> NoAnn, other |-> FALSE]

InitOrder ==
    /\ now = 1
    /\ \E f \in [OrderPods -> OrderPodValues] :
          pods = [p \in PodIds |-> IF p \in OrderPods THEN f[p] ELSE RestPod]
    /\ podDeadlines = EmptyCache
    /\ pmDeadlines = EmptyCache
    /\ pausedPods = EmptyCache
    /\ apiPause = [p \in PodIds |-> NoAnn]
    /\ lsPause = [p \in PodIds |-> NoAnn]
    /\ op = NoOp
    /\ podExecutions = EmptyCache
    /\ atlas = <<>>
    /\ upserts = <<>>

NextOrder ==
    \/ \E p1 \in OrderPods, p2 \in OrderPods : SimpleLess(p1, p2)
    \/ \E p1 \in OrderPods, p2 \in OrderPods : EDFLess(p1, p2)
    \/ \E p \in OrderPods : SimpleParse(p)
    \/ \E p \in OrderPods : EDFParse(p)

SpecOrder == InitOrder /\ [][NextOrder]_vars

----------------------------------------------------------------------------
(* The deadline manager specification: the plug-in's deadline manager is   *)
(* read, upserted and emptied for a pod whose ddl annotation changes,      *)
(* while the clock runs past the entries' expiration.                      *)

\* the pods whose deadlines this specification asks for
DeadlinePods == {1, 2}
\* the pods whose ddl annotation is edited
EditedPods == {1}

\* mutant: a read that misses stores what it parsed
GetCall_Stores(p) ==
    /\ op' = [kind |-> "get", p |-> p, hit |-> Found(podDeadlines, UID(p)),
              ret |-> GetPodDeadline(podDeadlines, p, now)]
    /\ podDeadlines' = AddPodDeadline(podDeadlines, p, now).cache
    /\ UNCHANGED <<now, pods, pmDeadlines, pausedPods, apiPause, lsPause, podExecutions, atlas, upserts>>

\* deadlineManager.GetPodDeadline(pod)
GetCall(p) ==
    /\ op' = [kind |-> "get", p |-> p, hit |-> Found(podDeadlines, UID(p)),
              ret |-> GetPodDeadline(podDeadlines, p, now)]
    /\ UNCHANGED <<now, pods, podDeadlines, pmDeadlines, pausedPods, apiPause, lsPause, podExecutions, atlas, upserts>>

\* deadlineManager.AddPodDeadline(pod)
AddCall(p) ==
    LET r == AddPodDeadline(podDeadlines, p, now)
    IN  /\ op' = [kind |-> "add", p |-> p, hit |-> Found(podDeadlines, UID(p)),
                  ret |-> r.ret]
        /\ podDeadlines' = r.cache
        /\ UNCHANGED <<now, pods, pmDeadlines, pausedPods, apiPause, lsPause, podExecutions, atlas, upserts>>

\* deadlineManager.RemovePodDeadline(pod)
RemoveCall(p) ==
    /\ op' = [kind |-> "remove", p |-> p]
    /\ podDeadlines' = RemovePodDeadline(podDeadlines, p, now)
    /\ UNCHANGED <<now, pods, pmDeadlines, pausedPods, apiPause, lsPause, podExecutions, atlas, upserts>>

\* the janitor of gocache.New(time.Hour*5, time.Second*5) sweeps expired items
Janitor ==
    /\ CacheDeleteExpired(podDeadlines, now) # podDeadlines
    /\ op' = [kind |-> "janitor"]
    /\ podDeadlines' = CacheDeleteExpired(podDeadlines, now)
    /\ UNCHANGED <<now, pods, pmDeadlines, pausedPods, apiPause, lsPause, podExecutions, atlas, upserts>>

\* the pod's ddl annotation is edited
UpdateDDL(p, v) ==
    /\ pods[p].ddl # v
    /\ op' = [kind |-> "update", p |-> p]
    /\ pods' = [pods EXCEPT ![p].ddl = v]
    /\ UNCHANGED <<now, podDeadlines, pmDeadlines, pausedPods, apiPause, lsPause, podExecutions, atlas, upserts>>

InitDeadline ==
    /\ now = 1
    /\ \E c \in 0..MaxCreation, d \in DDLValues :
          pods = [p \in PodIds |->
                    IF p \in EditedPods
                    THEN [prio |-> 0, creation |-> c, ddl |-> d, other |-> FALSE]
                    ELSE RestPod]
    /\ podDeadlines = EmptyCache
    /\ pmDeadlines = EmptyCache
    /\ pausedPods = EmptyCache
    /\ apiPause = [p \in PodIds |-> NoAnn]
    /\ lsPause = [p \in PodIds |-> NoAnn]
    /\ op = NoOp
    /\ podExecutions = EmptyCache
    /\ atlas = <<>>
    /\ upserts = <<>>

NextDeadline ==
    \/ Tick
    \/ Janitor
    \/ \E p \in DeadlinePods : GetCall(p)
    \/ \E p \in DeadlinePods : AddCall(p)
    \/ \E p \in DeadlinePods : RemoveCall(p)
    \/ \E p \in EditedPods, v \in DDLValues : UpdateDDL(p, v)

SpecDeadline == InitDeadline /\ [][NextDeadline]_vars

----------------------------------------------------------------------------
(* Preemption manager (pkg/rtpreemptive/preemption/preemption_manager.go)  *)

\* toCacheKey(p): fmt.Sprintf("%s/%s", p.Namespace, p.Name)
toCacheKey(p) == Namespace(p) \o <<Slash>> \o PodName(p)

\* strings.Split(s, "/")
RECURSIVE SplitSlash(_, _, _)
SplitSlash(s, cur, acc) ==
    IF s = <<>> THEN Append(acc, cur)
    ELSE IF Head(s) = Slash THEN SplitSlash(Tail(s), <<>>, Append(acc, cur))
    ELSE SplitSlash(Tail(s), Append(cur, Head(s)), acc)

\* parseCacheKey(key)
parseCacheKey(key) ==
    LET res == SplitSlash(key, <<>>, <<>>)
    IN  IF Len(res) # 2 THEN [namespace |-> <<>>, name |-> <<>>]
        ELSE [namespace |-> res[1], name |-> res[2]]

\* podLister.Pods(namespace).Get(name): the pods of that name, none on an error
ListerGet(namespace, name) ==
    {p \in PodIds : Namespace(p) = namespace /\ PodName(p) = name}

\* pod.GetAnnotations() is nil: the lister's pod object has no annotation at all
AnnotationsNil(ls, p) == pods[p].ddl = NoAnn /\ ~pods[p].other /\ ls[p] = NoAnn

\* preemptionManager.IsPodMarkedPaused(pod), on the lister's pod object
IsPodMarkedPaused(ls, p) == ls[p] # NoAnn /\ ls[p] = "true"

\* pausedPods.Items(): the keys of the items that have not expired
Items(paused, t) == {k \in DOMAIN paused : ~(t > paused[k].exp)}

\* what a call leaves: the value returned and the state
Outcome(ret, ls, api, paused, pmd) ==
    [ret |-> ret, ls |-> ls, api |-> api, paused |-> paused, pmd |-> pmd]

\* mutant: a pod that is registered already is taken off the map
AddPausedPod_Toggle(paused, pmd, p, node, t) ==
    [paused |-> IF toCacheKey(p) \in DOMAIN paused
                THEN CacheDelete(paused, toCacheKey(p))
                ELSE CacheSet(paused, toCacheKey(p), node, t, PausedTTL),
     pmd |-> AddPodDeadline(pmd, p, t).cache]

\* mutant: the entry is stored with gocache.NoExpiration
AddPausedPod_NoExpiry(paused, pmd, p, node, t) ==
    [paused |-> CacheSet(paused, toCacheKey(p), node, t, defaultDDLRelative),
     pmd |-> AddPodDeadline(pmd, p, t).cache]

\* mutant: the entry is stored already expired
AddPausedPod_Expired(paused, pmd, p, node, t) ==
    [paused |-> CacheSet(paused, toCacheKey(p), node, t, 0 - 1),
     pmd |-> AddPodDeadline(pmd, p, t).cache]

\* preemptionManager.AddPausedPod(candidate)
AddPausedPod(paused, pmd, p, node, t) ==
    [paused |-> CacheSet(paused, toCacheKey(p), node, t, PausedTTL),
     pmd |-> AddPodDeadline(pmd, p, t).cache]

\* preemptionManager.RemovePausedPod(pod)
RemovePausedPod(paused, pmd, p, t) ==
    [paused |-> CacheDeleteExpired(CacheDelete(paused, toCacheKey(p)), t),
     pmd |-> RemovePodDeadline(pmd, p, t)]

\* mutant: the pod is registered as paused before the store is written
PauseCandidate_AddFirst(p, node, getErr, updErr) ==
    LET marked == [lsPause EXCEPT ![p] = "true"]
        added == AddPausedPod(pausedPods, pmDeadlines, p, node, now)
    IN  IF getErr THEN Outcome("errGet", lsPause, apiPause, pausedPods, pmDeadlines)
        ELSE IF AnnotationsNil(lsPause, p)
        THEN Outcome("panic", lsPause, apiPause, pausedPods, pmDeadlines)
        ELSE IF updErr
        THEN Outcome("errUpdate", marked, apiPause, added.paused, added.pmd)
        ELSE Outcome("ok", marked, [apiPause EXCEPT ![p] = "true"],
                     added.paused, added.pmd)

\* preemptionManager.PauseCandidate(ctx, candidate) for the candidate (node, p).
\* getErr: the lister does not hold the pod; updErr: the API server refuses
\* the update.  markPodToPaused writes to the lister's pod object, and to a
\* nil map when the pod has no annotations.
PauseCandidate(p, node, getErr, updErr) ==
    LET marked == [lsPause EXCEPT ![p] = "true"]
        added == AddPausedPod(pausedPods, pmDeadlines, p, node, now)
    IN  IF getErr THEN Outcome("errGet", lsPause, apiPause, pausedPods, pmDeadlines)
        ELSE IF AnnotationsNil(lsPause, p)
        THEN Outcome("panic", lsPause, apiPause, pausedPods, pmDeadlines)
        ELSE IF updErr
        THEN Outcome("errUpdate", marked, apiPause, pausedPods, pmDeadlines)
        ELSE Outcome("ok", marked, [apiPause EXCEPT ![p] = marked[p]],
                     added.paused, added.pmd)

\* what a scanned item runs into
Fates == {"ok", "errGet", "errNode", "errUpdate"}
NoCandidate == [found |-> FALSE, pod |-> 0, node |-> NoAnn, panic |-> FALSE]
\* the write to a nil annotation map ends the call
Panicked == [found |-> FALSE, pod |-> 0, node |-> NoAnn, panic |-> TRUE]

\* preemptionManager.ResumePausedPod(ctx, pod): the loop over
\* pausedPods.Items() from its i-th key on, in the order the map gives them.
\* fate[key] says whether the lister, the node lister or the API server
\* fails for that item.
RECURSIVE ResumeScan(_, _, _, _, _)
ResumeScan(w, order, i, fate, ls) ==
    IF i > Len(order) THEN Outcome(NoCandidate, ls, apiPause, pausedPods, pmDeadlines)
    ELSE
    LET key == order[i]
        parsed == parseCacheKey(key)
        got == ListerGet(parsed.namespace, parsed.name)
        pausedPod == CHOOSE p \in got : TRUE
        pausedPodDDL == GetPodDeadline(pmDeadlines, pausedPod, now)
        podDDL == GetPodDeadline(pmDeadlines, w, now)
        marked == [ls EXCEPT ![pausedPod] = "false"]
        removed == RemovePausedPod(pausedPods, pmDeadlines, pausedPod, now)
    IN  IF got = {} \/ fate[key] = "errGet" THEN ResumeScan(w, order, i + 1, fate, ls)
        ELSE IF podDDL < pausedPodDDL THEN ResumeScan(w, order, i + 1, fate, ls)
        ELSE IF ~FoundAt(pausedPods, toCacheKey(pausedPod), now) \/ fate[key] = "errNode"
        THEN ResumeScan(w, order, i + 1, fate, ls)
        ELSE IF AnnotationsNil(ls, pausedPod)
        THEN Outcome(Panicked, ls, apiPause, pausedPods, pmDeadlines)
        ELSE IF fate[key] = "errUpdate" THEN ResumeScan(w, order, i + 1, fate, marked)
        ELSE Outcome([found |-> TRUE, pod |-> pausedPod,
                      node |-> pausedPods[toCacheKey(pausedPod)].v, panic |-> FALSE],
                     marked, [apiPause EXCEPT ![pausedPod] = marked[pausedPod]],
                     removed.paused, removed.pmd)

\* mutant: the resumed pod stays in the paused map
ResumePausedPod_KeepEntry(w, order, fate) ==
    [ResumeScan(w, order, 1, fate, lsPause) EXCEPT !.paused = pausedPods]

\* mutant: the scan gives up after the first item
ResumePausedPod_FirstOnly(w, order, fate) ==
    ResumeScan(w, IF Len(order) = 0 THEN order ELSE <<order[1]>>, 1, fate, lsPause)

\* preemptionManager.ResumePausedPod(ctx, pod)
ResumePausedPod(w, order, fate) == ResumeScan(w, order, 1, fate, lsPause)

\* the orders in which a map iteration may give the keys
Orders(keys) ==
    {o \in [1..Cardinality(keys) -> keys] :
        \A i, j \in 1..Cardinality(keys) : o[i] = o[j] => i = j}

----------------------------------------------------------------------------
(* The preemption manager specification: pods are paused and resumed,     *)
(* the lister and the API server fail at will, the informer catches up,    *)
(* and the clock runs by the hour past the expiration of the entries.      *)

MaxHours == 2
\* the pods that are paused, and the pods that trigger a resume
Residents == {1, 2}
Triggers == {2, 3}

DoPause(p, node) ==
    \E getErr \in BOOLEAN, updErr \in BOOLEAN :
        LET r == PauseCandidate(p, node, getErr, updErr)
        IN  /\ op' = [kind |-> "pause", pod |-> p, node |-> node, ret |-> r.ret]
            /\ lsPause' = r.ls
            /\ apiPause' = r.api
            /\ pausedPods' = r.paused
            /\ pmDeadlines' = r.pmd
            /\ UNCHANGED <<now, pods, podDeadlines, podExecutions, atlas, upserts>>

DoResume(w) ==
    \E order \in Orders(Items(pausedPods, now)) :
    \E fate \in [Items(pausedPods, now) -> Fates] :
        LET r == ResumePausedPod(w, order, fate)
        IN  /\ op' = [kind |-> "resume", pod |-> w, scanned |-> Items(pausedPods, now),
                      fate |-> fate, ret |-> r.ret]
            /\ lsPause' = r.ls
            /\ apiPause' = r.api
            /\ pausedPods' = r.paused
            /\ pmDeadlines' = r.pmd
            /\ UNCHANGED <<now, pods, podDeadlines, podExecutions, atlas, upserts>>

\* the informer delivers the API server's pod to the lister
Sync(p) ==
    /\ lsPause[p] # apiPause[p]
    /\ lsPause' = [lsPause EXCEPT ![p] = apiPause[p]]
    /\ op' = [kind |-> "sync", pod |-> p]
    /\ UNCHANGED <<now, pods, podDeadlines, pmDeadlines, pausedPods, apiPause, podExecutions, atlas, upserts>>

\* an hour passes
Hour ==
    /\ now + PausedTTL <= 1 + PausedTTL * MaxHours
    /\ now' = now + PausedTTL
    /\ op' = [kind |-> "tick"]
    /\ UNCHANGED <<pods, podDeadlines, pmDeadlines, pausedPods, apiPause, lsPause, podExecutions, atlas, upserts>>

\* the janitors of the two caches of the preemption manager sweep expired items
JanitorPaused ==
    /\ \/ CacheDeleteExpired(pausedPods, now) # pausedPods
       \/ CacheDeleteExpired(pmDeadlines, now) # pmDeadlines
    /\ pausedPods' = CacheDeleteExpired(pausedPods, now)
    /\ pmDeadlines' = CacheDeleteExpired(pmDeadlines, now)
    /\ op' = [kind |-> "janitor"]
    /\ UNCHANGED <<now, pods, podDeadlines, apiPause, lsPause, podExecutions, atlas, upserts>>

\* pods of the preemption specification: a tight deadline, a loose one, no
\* annotation at all (30 days after creation), no creation time
TightPod == [prio |-> 0, creation |-> 1, ddl |-> "20m", other |-> FALSE]
LoosePod == [prio |-> 0, creation |-> 2, ddl |-> "20m", other |-> FALSE]
BarePod == [prio |-> 0, creation |-> 1, ddl |-> NoAnn, other |-> FALSE]
UndatedPod == [prio |-> 0, creation |-> 0, ddl |-> NoAnn, other |-> TRUE]
PreemptPods ==
    { <<LoosePod, TightPod, LoosePod>>,
      <<UndatedPod, TightPod, BarePod>>,
      <<BarePod, LoosePod, TightPod>> }

InitPreempt ==
    /\ now = 1
    /\ \E ps \in PreemptPods :
          pods = [p \in PodIds |-> IF p <= Len(ps) THEN ps[p] ELSE LoosePod]
    /\ podDeadlines = EmptyCache
    /\ pmDeadlines = EmptyCache
    /\ pausedPods = EmptyCache
    /\ apiPause = [p \in PodIds |-> NoAnn]
    /\ lsPause = [p \in PodIds |-> NoAnn]
    /\ op = NoOp
    /\ podExecutions = EmptyCache
    /\ atlas = <<>>
    /\ upserts = <<>>

NextPreempt ==
    \/ Hour
    \/ JanitorPaused
    \/ \E p \in PodIds : Sync(p)
    \/ \E p \in Residents, node \in Nodes : DoPause(p, node)
    \/ \E w \in Triggers : DoResume(w)

SpecPreempt == InitPreempt /\ [][NextPreempt]_vars

\* The preemption manager with the clock and the janitor of the cache kept
\* running (gocache.New(5s, 5s) starts a janitor that sweeps every five
\* seconds).  The clock of the model ends at ClockEnd: pods are paused while
\* an entry stored now expires before that.
ClockEnd == 1 + PausedTTL * MaxHours

DoPauseEarly(p, node) ==
    /\ now + PausedTTL < ClockEnd
    /\ DoPause(p, node)

NextPreemptLive ==
    \/ Hour
    \/ JanitorPaused
    \/ \E p \in PodIds : Sync(p)
    \/ \E p \in Residents, node \in Nodes : DoPauseEarly(p, node)
    \/ \E w \in Triggers : DoResume(w)

SpecPreemptLive ==
    /\ InitPreempt /\ [][NextPreemptLive]_vars
    /\ WF_vars(Hour) /\ WF_vars(JanitorPaused)

----------------------------------------------------------------------------
(* Claims about the queue sort, checked under SpecOrder *)

IsLess(o) == o.kind = "less"
\* two Less calls in a row on the same two pods, the second with them swapped
Swapped(o1, o2) ==
    /\ IsLess(o1) /\ IsLess(o2)
    /\ o1.plugin = o2.plugin /\ o2.p1 = o1.p2 /\ o2.p2 = o1.p1
SameKey(p1, p2) == GetNamespacedName(p1) = GetNamespacedName(p2)
ExactlyOne(a, b, c) == (a /\ ~b /\ ~c) \/ (~a /\ b /\ ~c) \/ (~a /\ ~b /\ c)

\* C1: Less(p1,p2) and Less(p2,p1) are never both true, for SimpleDDL.Less
\* and for EDFPreemptiveScheduling.Less.
C1_LessNeverBothTrue ==
    [][Swapped(op, op') => ~(op.ret /\ op'.ret)]_vars

\* C2: for all pods p1, p2 exactly one of Less(p1,p2), Less(p2,p1) and
\* key(p1) = key(p2) holds.
C2_LessTrichotomy ==
    [][Swapped(op, op') => ExactlyOne(op.ret, op'.ret, SameKey(op.p1, op.p2))]_vars

\* C3: if priority(p1) > priority(p2) then Less(p1,p2) is true and Less(p2,p1)
\* is false whatever the deadlines, creation times and names, and the call
\* neither reads nor writes the deadline cache.
C3_PriorityFirst ==
    [][(IsLess(op') /\ PodPriority(op'.p1) # PodPriority(op'.p2)) =>
          /\ op'.ret = (PodPriority(op'.p1) > PodPriority(op'.p2))
          /\ op'.calls = 0
          /\ podDeadlines' = podDeadlines]_vars

\* a Less call that put the higher priority pod first although its deadline
\* is the later one and its name the larger one
C3_Witness ==
    /\ IsLess(op) /\ op.plugin = "edf" /\ op.ret
    /\ PodPriority(op.p1) > PodPriority(op.p2)
    /\ pods[op.p1].creation > 0 /\ pods[op.p2].creation > 0
    /\ ParsePodDeadline(op.p1, now) > ParsePodDeadline(op.p2, now)
    /\ StrLess(GetNamespacedName(op.p2), GetNamespacedName(op.p1))

\* earlier deadline first, the namespaced name breaking a tie
EarlierFirst(p1, p2, d1, d2) ==
    d1 < d2 \/ (d1 = d2 /\ StrLess(GetNamespacedName(p1), GetNamespacedName(p2)))

\* C4: for two pods of equal priority Less(p1,p2) is true exactly when the
\* absolute deadline of p1 is the earlier one, or the deadlines are equal and
\* namespace/name of p1 is the smaller one.  The absolute deadlines are those
\* the deadline manager holds after the call (EDF), those parseDDL gives at
\* the instants the call read the clock (SimpleDDL).
C4_EqualPriorityByDeadline ==
    [][(IsLess(op') /\ PodPriority(op'.p1) = PodPriority(op'.p2)) =>
          IF op'.plugin = "edf"
          THEN /\ {UID(op'.p1), UID(op'.p2)} \subseteq DOMAIN podDeadlines'
               /\ op'.ret = EarlierFirst(op'.p1, op'.p2,
                                podDeadlines'[UID(op'.p1)].v,
                                podDeadlines'[UID(op'.p2)].v)
          ELSE \E t1 \in now..now' : \E t2 \in t1..now' :
                  op'.ret = EarlierFirst(op'.p1, op'.p2,
                                parseDDL(op'.p1, t1), parseDDL(op'.p2, t2))]_vars

\* two pods of equal priority and equal deadline, ordered by their names
C4_Witness ==
    /\ IsLess(op) /\ op.plugin = "edf" /\ op.ret /\ op.p1 # op.p2
    /\ PodPriority(op.p1) = PodPriority(op.p2)
    /\ {UID(op.p1), UID(op.p2)} \subseteq DOMAIN podDeadlines
    /\ podDeadlines[UID(op.p1)].v = podDeadlines[UID(op.p2)].v
    /\ pods[op.p1].creation # pods[op.p2].creation

\* the fallback ladder of the deadline, the default given in ticks
Ladder(p, t, default) ==
    IF pods[p].creation = 0 THEN t + default
    ELSE IF pods[p].ddl \in {NoAnn, "abc", "-20m"} THEN pods[p].creation + default
    ELSE pods[p].creation + 2

\* two pods of equal priority, no ddl annotation, created at different instants
NoDDLCreated(p1, p2) ==
    /\ PodPriority(p1) = PodPriority(p2)
    /\ pods[p1].ddl = NoAnn /\ pods[p2].ddl = NoAnn
    /\ pods[p1].creation > 0 /\ pods[p2].creation > 0
    /\ pods[p1].creation # pods[p2].creation
\* the deadline manager holds no deadline for either pod, so that Less parses
NeitherCached(p1, p2) ==
    ~Found(podDeadlines, UID(p1)) /\ ~Found(podDeadlines, UID(p2))

----------------------------------------------------------------------------
(* Claims about the deadline manager, checked under SpecDeadline *)

IsRead(o) == o.kind \in {"get", "add"}

\* C6: once an upsert has stored a deadline for a UID, every later get or
\* upsert of a pod with that UID returns it, also after the pod's ddl
\* annotation has changed, until remove or expiry; an upsert that finds the
\* entry leaves the stored deadline as it is.
C6_StoredDeadlineStable ==
    [][/\ op'.kind = "add" =>
            /\ FoundAt(podDeadlines', UID(op'.p), now')
            /\ podDeadlines'[UID(op'.p)].v = op'.ret
       /\ (IsRead(op') /\ Found(podDeadlines, UID(op'.p))) =>
            op'.ret = podDeadlines[UID(op'.p)].v
       /\ \A p \in PodIds :
            (Found(podDeadlines, UID(p)) /\ UID(p) \in DOMAIN podDeadlines'
                /\ op'.kind # "remove")
              => podDeadlines'[UID(p)].v = podDeadlines[UID(p)].v]_vars

\* a read returned the stored deadline although the pod's annotation now
\* parses to another one
C6_Witness ==
    /\ IsRead(op) /\ op.hit
    /\ pods[op.p].creation > 0
    /\ op.ret # ParsePodDeadline(op.p, now)

\* C7: get leaves the deadline cache as it is; on a miss it returns the parsed
\* deadline and creates no entry.
C7_GetLeavesCache ==
    [][op'.kind = "get" =>
          /\ podDeadlines' = podDeadlines
          /\ ~Found(podDeadlines, UID(op'.p)) => op'.ret = ParsePodDeadline(op'.p, now)]_vars

\* a get that missed and left no entry behind
C7_Witness ==
    /\ op.kind = "get" /\ ~op.hit
    /\ UID(op.p) \notin DOMAIN podDeadlines

----------------------------------------------------------------------------
(* Claims about the preemption manager, checked under SpecPreempt *)

\* the pod's entry of the paused map, as pausedPods.Get sees it at time t
Listed(paused, p, t) == FoundAt(paused, toCacheKey(p), t)

\* C8: pause_candidate(R on N) records paused[key(R)] = N only when the store
\* accepted the write of pause-pod=true for R; a call that fails to read R or
\* to write it back returns an error and leaves the paused map (and the
\* store) as they were.
C8_PauseRecordsAfterWrite ==
    [][op'.kind = "pause" =>
         /\ op'.ret = "ok" =>
               /\ apiPause'[op'.pod] = "true"
               /\ Listed(pausedPods', op'.pod, now')
               /\ pausedPods'[toCacheKey(op'.pod)].v = op'.node
         /\ op'.ret # "ok" =>
               /\ op'.ret \in {"errGet", "errUpdate", "panic"}
               /\ pausedPods' = pausedPods
               /\ apiPause' = apiPause]_vars

\* a pause was recorded for one pod while the failed write of another pod
\* left its mark on the lister's object only
C8_Witness ==
    /\ op.kind = "pause" /\ op.ret = "ok"
    /\ Listed(pausedPods, op.pod, now)
    /\ \E q \in Residents :
          /\ q # op.pod
          /\ lsPause[q] = "true" /\ apiPause[q] = NoAnn
          /\ toCacheKey(q) \notin DOMAIN pausedPods

\* C9 as stated: in every state a pod whose pause-pod annotation in the store
\* is "true" has an entry in the paused map, and a pod whose annotation a
\* resume has set to "false" has none.
C9_MarkedIsListed ==
    \A p \in PodIds :
        /\ apiPause[p] = "true" => Listed(pausedPods, p, now)
        /\ apiPause[p] = "false" => ~Listed(pausedPods, p, now)

\* C9 amended: the step that writes pause-pod=true leaves an entry in the
\* paused map; the entry of a pod marked "true" stays until a resume returns
\* the pod or the entry's hour has passed; a pod whose annotation a resume
\* has set to "false" has no entry.
C9_MarkedIsListedUntilExpiry ==
    /\ [](\A p \in PodIds : apiPause[p] = "false" => toCacheKey(p) \notin DOMAIN pausedPods)
    /\ [][\A p \in PodIds :
            /\ (apiPause'[p] = "true" /\ op'.kind = "pause" /\ op'.pod = p /\ op'.ret = "ok")
                  => /\ Listed(pausedPods', p, now')
                     /\ pausedPods'[toCacheKey(p)].exp = now' + PausedTTL
            /\ (apiPause[p] = "true" /\ Listed(pausedPods, p, now))
                  => \/ Listed(pausedPods', p, now')
                     \/ now' > pausedPods[toCacheKey(p)].exp
                     \/ (op'.kind = "resume" /\ op'.ret.found
                           /\ op'.ret.pod = p /\ apiPause'[p] = "false")]_vars

\* a pod is still marked and listed at the last instant of its hour, next to
\* a pod that a resume has unmarked
C9_Witness ==
    \E p, q \in Residents :
        /\ apiPause[p] = "true" /\ Listed(pausedPods, p, now)
        /\ now = pausedPods[toCacheKey(p)].exp
        /\ apiPause[q] = "false" /\ toCacheKey(q) \notin DOMAIN pausedPods

\* the deadline the preemption manager's deadline manager gives for a pod
PMDeadline(p) == GetPodDeadline(pmDeadlines, p, now)

\* C10: resume_paused(W) resumes a paused pod R only if deadline(W) >=
\* deadline(R); it resumes at most one pod per call; for the resumed R the
\* store holds pause-pod=false, its entry of the paused map is gone, and R is
\* returned with the node recorded for it.  Every other pod, one whose store
\* write failed included, keeps its annotation and its entry.
C10_ResumeOneByDeadline ==
    [][(op'.kind = "resume" /\ ~op'.ret.panic) =>
         /\ op'.ret.found =>
               /\ Listed(pausedPods, op'.ret.pod, now)
               /\ PMDeadline(op'.pod) >= PMDeadline(op'.ret.pod)
               /\ apiPause[op'.ret.pod] = "true"
               /\ apiPause'[op'.ret.pod] = "false"
               /\ toCacheKey(op'.ret.pod) \notin DOMAIN pausedPods'
               /\ op'.ret.node = pausedPods[toCacheKey(op'.ret.pod)].v
         /\ \A q \in PodIds :
               (~op'.ret.found \/ q # op'.ret.pod) =>
                   /\ apiPause'[q] = apiPause[q]
                   /\ Listed(pausedPods, q, now) =>
                         /\ Listed(pausedPods', q, now')
                         /\ pausedPods'[toCacheKey(q)] = pausedPods[toCacheKey(q)]]_vars

\* a resume returned one pod with its node while another pod, whose write
\* was refused, is still marked in the store and listed
C10_Witness ==
    /\ op.kind = "resume" /\ op.ret.found
    /\ apiPause[op.ret.pod] = "false"
    /\ \E q \in Residents :
          /\ q # op.ret.pod
          /\ apiPause[q] = "true" /\ lsPause[q] = "false"
          /\ Listed(pausedPods, q, now)

\* the paused pods that resume_paused(w) may resume
Qualifying(w) ==
    {r \in PodIds : Listed(pausedPods, r, now) /\ PMDeadline(w) >= PMDeadline(r)}

\* C11 as stated: when a qualifying pod's write would be accepted the call
\* returns one of the qualifying pods, and it returns nil only when no pod
\* qualifies or the store refuses every qualifying pod.
C11_ResumeSomeQualifying ==
    [][(op'.kind = "resume" /\ ~op'.ret.panic) =>
         /\ (\E r \in Qualifying(op'.pod) : op'.fate[toCacheKey(r)] # "errUpdate")
               => (op'.ret.found /\ op'.ret.pod \in Qualifying(op'.pod))
         /\ ~op'.ret.found
               => \A r \in Qualifying(op'.pod) : op'.fate[toCacheKey(r)] = "errUpdate"]_vars

\* C11 amended: when for a qualifying pod the lister read, the node lookup
\* and the store write all succeed, the call returns a qualifying pod for
\* which they did; it returns nil only when one of the three fails for every
\* qualifying pod (or none qualifies).
C11_ResumeSomeReachable ==
    [][(op'.kind = "resume" /\ ~op'.ret.panic) =>
         /\ (\E r \in Qualifying(op'.pod) : op'.fate[toCacheKey(r)] = "ok")
               => /\ op'.ret.found
                  /\ op'.ret.pod \in Qualifying(op'.pod)
                  /\ op'.fate[toCacheKey(op'.ret.pod)] = "ok"
         /\ ~op'.ret.found
               => \A r \in Qualifying(op'.pod) : op'.fate[toCacheKey(r)] # "ok"]_vars

\* a resume returned a pod although the lister failed for another paused pod
C11_Witness ==
    /\ op.kind = "resume" /\ op.ret.found
    /\ op.fate[toCacheKey(op.ret.pod)] = "ok"
    /\ \E q \in Residents :
          /\ q # op.ret.pod
          /\ toCacheKey(q) \in op.scanned
          /\ op.fate[toCacheKey(q)] = "errGet"
          /\ Listed(pausedPods, q, now)

----------------------------------------------------------------------------
(* The hooks of the plug-in                                                *)
(* (pkg/rtpreemptive/edf_preemptive_scheduling.go).  Here a pod also has   *)
(* a node binding (Spec.NodeName), the node the host nominated it for, a   *)
(* phase (Status.Phase), a resource request and the preemptible            *)
(* annotation.                                                             *)

NoNode == ""
\* what a node can hold, in units of the pods' requests
NodeCapacity == 2

\* nodeInfo.Pods: the pods the snapshot has on the node
PodsOnNode(n) == {p \in PodIds : pods[p].node = n}
\* fh.NominatedPodsForNode(n)
NominatedPodsForNode(n) == {p \in PodIds : pods[p].nominated = n}

\* the elements of the set in the order the permutation perm gives them
RECURSIVE InOrder(_, _, _)
InOrder(set, perm, i) ==
    IF i > Len(perm) THEN <<>>
    ELSE IF perm[i] \in set THEN <<perm[i]>> \o InOrder(set, perm, i + 1)
    ELSE InOrder(set, perm, i + 1)

\* the requests of a set of pods
RECURSIVE Requested(_)
Requested(set) ==
    IF set = {} THEN 0
    ELSE LET p == CHOOSE q \in set : TRUE IN pods[p].req + Requested(set \ {p})

\* mutant: every pod fits
Fits_Always(w, others) == TRUE

\* noderesources.Fits(pod, nodeInfo) gives no reason: the pod fits next to
\* the pods of the node view
Fits(w, others) == pods[w].req + Requested(others) <= NodeCapacity

\* the plug-in's deadlineManager.GetPodDeadline(p)
PluginDeadline(p) == GetPodDeadline(podDeadlines, p, now)

\* findCandidateOnNode, the loop over nodeInfo.Pods and the nominated pods
RECURSIVE CandidateScan(_, _, _, _, _, _)
CandidateScan(w, list, i, maxDDL, candidatePod, unpausedPods) ==
    IF i > Len(list)
    THEN [candidatePod |-> candidatePod, unpausedPods |-> unpausedPods]
    ELSE LET p == list[i]
             ddl == PluginDeadline(p)
         IN  IF UID(p) = UID(w)
             THEN CandidateScan(w, list, i + 1, maxDDL, candidatePod, unpausedPods)
             ELSE IF pods[p].phase # "Paused"
             THEN IF ddl > maxDDL
                  THEN CandidateScan(w, list, i + 1, ddl, p, unpausedPods \cup {p})
                  ELSE CandidateScan(w, list, i + 1, maxDDL, candidatePod,
                                     unpausedPods \cup {p})
             ELSE CandidateScan(w, list, i + 1, maxDDL, candidatePod, unpausedPods)

\* mutant: a pod with the same deadline as the pod under consideration is taken
findCandidateOnNode_NotStrict(w, n, perm) ==
    LET list == InOrder(PodsOnNode(n), perm, 1) \o InOrder(NominatedPodsForNode(n), perm, 1)
        found == CandidateScan(w, list, 1, PluginDeadline(w) - 1, 0, {})
    IN  IF found.candidatePod = 0 THEN 0
        ELSE IF ~Fits(w, found.unpausedPods \ {found.candidatePod}) THEN 0
        ELSE found.candidatePod

\* findCandidateOnNode(pod, nodeInfo): 0 stands for nil
findCandidateOnNode(w, n, perm) ==
    LET list == InOrder(PodsOnNode(n), perm, 1) \o InOrder(NominatedPodsForNode(n), perm, 1)
        found == CandidateScan(w, list, 1, PluginDeadline(w), 0, {})
    IN  IF found.candidatePod = 0 THEN 0
        ELSE IF ~Fits(w, found.unpausedPods \ {found.candidatePod}) THEN 0
        ELSE found.candidatePod

\* selectCandidate, the loop over the candidates
RECURSIVE SelectScan(_, _, _, _)
SelectScan(candidates, i, maxDDL, bestCandidate) ==
    IF i > Len(candidates) THEN bestCandidate
    ELSE IF PluginDeadline(candidates[i].pod) > maxDDL
    THEN SelectScan(candidates, i + 1, PluginDeadline(candidates[i].pod), candidates[i])
    ELSE SelectScan(candidates, i + 1, maxDDL, bestCandidate)

NoVictim == [node |-> NoNode, pod |-> 0]

\* mutant: the last candidate is taken
selectCandidate_Last(candidates) ==
    IF Len(candidates) = 0 THEN NoVictim
    ELSE candidates[Len(candidates)]

\* selectCandidate(candidates)
selectCandidate(candidates) ==
    IF Len(candidates) = 0 THEN NoVictim
    ELSE SelectScan(candidates, 1, PluginDeadline(candidates[1].pod), candidates[1])

\* mutant: the status of the node in the map is not looked at
RECURSIVE CollectCandidates_NoSkip(_, _, _, _, _)
CollectCandidates_NoSkip(w, allNode, i, skip, perm) ==
    IF i > Len(allNode) THEN <<>>
    ELSE LET n == allNode[i]
             candidate == findCandidateOnNode(w, n, perm)
         IN  IF candidate = 0
             THEN CollectCandidates_NoSkip(w, allNode, i + 1, skip, perm)
             ELSE <<[node |-> n, pod |-> candidate]>>
                      \o CollectCandidates_NoSkip(w, allNode, i + 1, skip, perm)

\* PostFilter, the loop over allNode: the candidates in the order of the nodes
RECURSIVE CollectCandidates(_, _, _, _, _)
CollectCandidates(w, allNode, i, skip, perm) ==
    IF i > Len(allNode) THEN <<>>
    ELSE LET n == allNode[i]
             candidate == findCandidateOnNode(w, n, perm)
         IN  IF n \in skip \/ candidate = 0
             THEN CollectCandidates(w, allNode, i + 1, skip, perm)
             ELSE <<[node |-> n, pod |-> candidate]>>
                      \o CollectCandidates(w, allNode, i + 1, skip, perm)

\* what a hook returns: the status code, the nominated node, the pod acted on
Status(code, node, pod) == [code |-> code, node |-> node, pod |-> pod]

\* mutant: the node is nominated whatever the pause returned
PostFilter_NominateAlways(w, allNode, skip, perm, fail) ==
    LET candidate == selectCandidate(CollectCandidates(w, allNode, 1, skip, perm))
        paused == PauseCandidate(candidate.pod, candidate.node,
                                 fail = "errGet", fail = "errUpdate")
    IN  IF fail = "errList"
        THEN Outcome(Status("Error", NoNode, 0),
                     lsPause, apiPause, pausedPods, pmDeadlines)
        ELSE IF candidate.pod = 0
        THEN Outcome(Status("UnschedulableAndUnresolvable", NoNode, 0),
                     lsPause, apiPause, pausedPods, pmDeadlines)
        ELSE IF paused.ret = "panic"
        THEN Outcome(Status("panic", NoNode, candidate.pod),
                     paused.ls, paused.api, paused.paused, paused.pmd)
        ELSE Outcome(Status("Success", candidate.node, candidate.pod),
                     paused.ls, paused.api, paused.paused, paused.pmd)

\* PostFilter(ctx, state, pod, filteredNodeStatusMap).  allNode is the order
\* in which the snapshot lists the nodes, perm the order of the pods in the
\* lists of the snapshot, skip the nodes the map has as
\* UnschedulableAndUnresolvable; fail says which call to the host fails.
PostFilter(w, allNode, skip, perm, fail) ==
    LET candidate == selectCandidate(CollectCandidates(w, allNode, 1, skip, perm))
        paused == PauseCandidate(candidate.pod, candidate.node,
                                 fail = "errGet", fail = "errUpdate")
    IN  IF fail = "errList"
        THEN Outcome(Status("Error", NoNode, 0),
                     lsPause, apiPause, pausedPods, pmDeadlines)
        ELSE IF candidate.pod = 0
        THEN Outcome(Status("UnschedulableAndUnresolvable", NoNode, 0),
                     lsPause, apiPause, pausedPods, pmDeadlines)
        ELSE IF paused.ret = "panic"
        THEN Outcome(Status("panic", NoNode, candidate.pod),
                     paused.ls, paused.api, paused.paused, paused.pmd)
        ELSE IF paused.ret # "ok"
        THEN Outcome(Status("Error", NoNode, candidate.pod),
                     paused.ls, paused.api, paused.paused, paused.pmd)
        ELSE Outcome(Status("Success", candidate.node, candidate.pod),
                     paused.ls, paused.api, paused.paused, paused.pmd)

\* preemptionManager.GetPausedCandidateOnNode(ctx, node): the pause entries
\* whose node is the given one, each with the pod of its key
PausedCandidatesOnNode(n) ==
    {c \in [node : {n}, pod : PodIds] :
        /\ Listed(pausedPods, c.pod, now)
        /\ pausedPods[toCacheKey(c.pod)].v = n}

\* what GetPausedCandidateOnNode may return: one of those entries, nil (the
\* pod 0) when there is none
GetPausedCandidateOnNode(n) ==
    IF PausedCandidatesOnNode(n) = {} THEN {NoVictim} ELSE PausedCandidatesOnNode(n)

\* preemptionManager.ResumeCandidate(ctx, candidate): read the latest pod from
\* the store, ErrPodNotPaused when it is not marked, else write
\* pause-pod=false and, when the store accepted the write, drop the entry
ResumeCandidate(c, fail) ==
    LET marked == [lsPause EXCEPT ![c.pod] = "false"]
        removed == RemovePausedPod(pausedPods, pmDeadlines, c.pod, now)
    IN  IF fail = "errGet"
        THEN Outcome("errGet", lsPause, apiPause, pausedPods, pmDeadlines)
        ELSE IF ~IsPodMarkedPaused(lsPause, c.pod)
        THEN Outcome("ErrPodNotPaused", lsPause, apiPause, pausedPods, pmDeadlines)
        ELSE IF fail = "errUpdate"
        THEN Outcome("errUpdate", lsPause, apiPause, pausedPods, pmDeadlines)
        ELSE Outcome("ok", marked, [apiPause EXCEPT ![c.pod] = "false"],
                     removed.paused, removed.pmd)

\* mutant: the binding of the pod is not looked at
BoundElsewhere_Never(w, n) == FALSE

\* Filter: the pod is already assigned to a node and it is not the given one
BoundElsewhere(w, n) == pods[w].node # NoNode /\ pods[w].node # n

\* mutant: a paused pod of the same deadline is resumed too
ShouldResume_NotStrict(c, w) ==
    c.pod # 0 /\ PluginDeadline(c.pod) <= PluginDeadline(w)

\* Filter: there is a paused candidate on the node and its deadline is
\* before the deadline of the pod
ShouldResume(c, w) ==
    c.pod # 0 /\ PluginDeadline(c.pod) < PluginDeadline(w)

\* mutant: the paused pods of the node are counted
UnpausedPods_All(n) == PodsOnNode(n)

\* Filter: the pods of nodeInfo.Pods whose phase is not PodPaused
UnpausedPods(n) == {p \in PodsOnNode(n) : pods[p].phase # "Paused"}

\* Filter(ctx, state, pod, nodeInfo).  c is what GetPausedCandidateOnNode
\* returned for the node, fail the call to the host that fails.
Filter(w, n, c, fail) ==
    LET resumed == ResumeCandidate(c, fail)
        code == IF Fits(w, UnpausedPods(n)) THEN "Success" ELSE "Unschedulable"
    IN  IF BoundElsewhere(w, n)
        THEN Outcome(Status("UnschedulableAndUnresolvable", n, 0),
                     lsPause, apiPause, pausedPods, pmDeadlines)
        ELSE IF ShouldResume(c, w)
        THEN IF resumed.ret = "ok"
             THEN Outcome(Status("UnschedulableAndUnresolvable", n, c.pod),
                          resumed.ls, resumed.api, resumed.paused, resumed.pmd)
             ELSE Outcome(Status(code, n, c.pod),
                          resumed.ls, resumed.api, resumed.paused, resumed.pmd)
        ELSE Outcome(Status(code, n, 0), lsPause, apiPause, pausedPods, pmDeadlines)

\* mutant: the waiting set and the phase are not looked at
WaitingOrPending_Never(w, waiting) == FALSE

\* PreFilter: fh.GetWaitingPod(pod.UID) != nil || pod.Status.Phase == PodPending
WaitingOrPending(w, waiting) == waiting \/ pods[w].phase = "Pending"

\* PreFilter: candidate.Pod.UID != latestPod.UID
OtherHasPriority(c, w) == UID(c.pod) # UID(w)

\* PreFilter(ctx, state, pod).  found is what GetPausedCandidateOnNode
\* returned for the node of the pod, waiting says whether the host has the
\* pod in its waiting set, fail the call to the host that fails ("errLister":
\* the lister does not hold the pod, latestPod is nil and the pod of the
\* queue is used).  The deadline cache of the plug-in is the last field.
PreFilter(w, found, waiting, fail) ==
    LET candidate == IF found.pod = 0 THEN [node |-> pods[w].node, pod |-> w] ELSE found
        resumed == ResumeCandidate(candidate, fail)
        same(code, pod) == [Outcome(Status(code, NoNode, pod),
                                    lsPause, apiPause, pausedPods, pmDeadlines)
                            EXCEPT !.pmd = <<pmDeadlines, podDeadlines>>]
    IN  IF IsPodMarkedPaused(lsPause, w)
        THEN IF WaitingOrPending(w, waiting) THEN same("Skip", 0)
             ELSE IF fail = "errLister" THEN same("panic", 0)
             ELSE IF OtherHasPriority(candidate, w)
             THEN same("UnschedulableAndUnresolvable", candidate.pod)
             ELSE IF resumed.ret = "ErrPodNotPaused" THEN same("Skip", candidate.pod)
             ELSE IF resumed.ret # "ok"
             THEN same("UnschedulableAndUnresolvable", candidate.pod)
             ELSE Outcome(Status("Skip", NoNode, candidate.pod), resumed.ls, resumed.api,
                          resumed.paused, <<resumed.pmd, podDeadlines>>)
        ELSE Outcome(Status("Continue", NoNode, 0), lsPause, apiPause, pausedPods,
                     <<pmDeadlines, AddPodDeadline(podDeadlines, w, now).cache>>)

----------------------------------------------------------------------------
(* The hooks specification: the host calls the hooks, one at a time, for   *)
(* the pods of the scheduling queue, the kubelet moves a pod to the phase  *)
(* its annotation asks for and the informer catches up.  The hooks are     *)
(* followed at one instant of the clock: the expiry of the entries is the  *)
(* subject of SpecPreempt.                                                 *)

HostFailures == {"none", "errList", "errGet", "errUpdate"}

\* the host has a hook's status to take: the hooks of a profile run one at a
\* time, the next one is called after the host took the status of the last
HookReturned == op.kind \in {"prefilter", "filter", "postfilter"}

HostTakes ==
    /\ HookReturned
    /\ op' = [kind |-> "taken"]
    /\ UNCHANGED <<now, pods, podDeadlines, pmDeadlines, pausedPods, apiPause, lsPause, podExecutions, atlas, upserts>>

\* the pods the host runs the hooks for: those of the scheduling queue
Queued(w) == pods[w].phase \in {"Pending", "Paused"}

\* the orders in which the snapshot lists the nodes and their pods
NodeOrder(rev) == IF rev THEN <<"n2", "n1">> ELSE <<"n1", "n2">>
PodOrder(rev) == [i \in 1..NumPods |-> IF rev THEN NumPods + 1 - i ELSE i]

DoPostFilter(w) ==
    /\ ~HookReturned
    /\ Queued(w)
    /\ \E rev \in BOOLEAN, skip \in SUBSET Nodes, fail \in HostFailures :
        LET r == PostFilter(w, NodeOrder(rev), skip, PodOrder(rev), fail)
        IN  /\ op' = [kind |-> "postfilter", pod |-> w, skip |-> skip,
                      fail |-> fail, ret |-> r.ret]
            /\ lsPause' = r.ls
            /\ apiPause' = r.api
            /\ pausedPods' = r.paused
            /\ pmDeadlines' = r.pmd
            /\ UNCHANGED <<now, pods, podDeadlines, podExecutions, atlas, upserts>>

DoFilter(w, n) ==
    /\ ~HookReturned
    /\ Queued(w)
    /\ \E c \in GetPausedCandidateOnNode(n), fail \in {"none", "errGet", "errUpdate"} :
        LET r == Filter(w, n, c, fail)
        IN  /\ op' = [kind |-> "filter", pod |-> w, node |-> n, found |-> c.pod,
                      fail |-> fail, ret |-> r.ret]
            /\ lsPause' = r.ls
            /\ apiPause' = r.api
            /\ pausedPods' = r.paused
            /\ pmDeadlines' = r.pmd
            /\ UNCHANGED <<now, pods, podDeadlines, podExecutions, atlas, upserts>>

DoPreFilter(w) ==
    /\ ~HookReturned
    /\ Queued(w)
    /\ \E c \in GetPausedCandidateOnNode(pods[w].node), waiting \in BOOLEAN,
          fail \in {"none", "errLister", "errGet", "errUpdate"} :
        LET r == PreFilter(w, c, waiting, fail)
        IN  /\ op' = [kind |-> "prefilter", pod |-> w, found |-> c.pod,
                      waiting |-> waiting, fail |-> fail, ret |-> r.ret]
            /\ lsPause' = r.ls
            /\ apiPause' = r.api
            /\ pausedPods' = r.paused
            /\ pmDeadlines' = r.pmd[1]
            /\ podDeadlines' = r.pmd[2]
            /\ UNCHANGED <<now, pods, podExecutions, atlas, upserts>>

\* the kubelet pauses a running pod marked pause-pod=true and lets a paused
\* pod marked pause-pod=false run again
Kubelet(p) ==
    /\ \/ apiPause[p] = "true" /\ pods[p].phase = "Running"
          /\ pods' = [pods EXCEPT ![p].phase = "Paused"]
       \/ apiPause[p] = "false" /\ pods[p].phase = "Paused"
          /\ pods' = [pods EXCEPT ![p].phase = "Running"]
    /\ op' = [kind |-> "kubelet", pod |-> p]
    /\ UNCHANGED <<now, podDeadlines, pmDeadlines, pausedPods, apiPause, lsPause, podExecutions, atlas, upserts>>

\* a pod of the hooks specification
HookPod(base, node, nominated, phase, req, preemptible) ==
    [prio |-> base.prio, creation |-> base.creation, ddl |-> base.ddl,
     other |-> base.other \/ preemptible # NoAnn,
     node |-> node, nominated |-> nominated, phase |-> phase, req |-> req,
     preemptible |-> preemptible]

\* two residents and an arrival with a tight deadline: the residents on two
\* nodes, the later one not preemptible; both on one node, the arrival small
\* or large; a resident of the arrival's deadline and a nominated pod
\* without annotations; a resident of the arrival's deadline on one node and
\* a later one on the other
HookPods ==
    { << HookPod(LoosePod, "n1", NoNode, "Running", 2, NoAnn),
         HookPod(BarePod, "n2", NoNode, "Running", 2, "false"),
         HookPod(TightPod, NoNode, NoNode, "Pending", 2, NoAnn) >>,
      << HookPod(LoosePod, "n1", NoNode, "Running", 1, NoAnn),
         HookPod(UndatedPod, "n1", NoNode, "Running", 1, NoAnn),
         HookPod(TightPod, NoNode, NoNode, "Pending", 1, NoAnn) >>,
      << HookPod(LoosePod, "n1", NoNode, "Running", 1, NoAnn),
         HookPod(UndatedPod, "n1", NoNode, "Running", 1, NoAnn),
         HookPod(TightPod, NoNode, NoNode, "Pending", 2, NoAnn) >>,
      << HookPod(TightPod, "n1", NoNode, "Running", 1, NoAnn),
         HookPod(BarePod, NoNode, "n1", "Pending", 1, NoAnn),
         HookPod(TightPod, NoNode, NoNode, "Pending", 1, NoAnn) >>,
      << HookPod(TightPod, "n1", NoNode, "Running", 1, NoAnn),
         HookPod(LoosePod, "n2", NoNode, "Running", 2, NoAnn),
         HookPod(TightPod, NoNode, NoNode, "Pending", 2, NoAnn) >> }

\* the plug-in just built, with the pods of one of the scenarios
InitFrom(scenarios) ==
    /\ now = 1
    /\ \E ps \in scenarios :
          pods = [p \in PodIds |->
                    IF p <= Len(ps) THEN ps[p]
                    ELSE HookPod(LoosePod, NoNode, NoNode, "Pending", 1, NoAnn)]
    /\ podDeadlines = EmptyCache
    /\ pmDeadlines = EmptyCache
    /\ pausedPods = EmptyCache
    /\ apiPause = [p \in PodIds |-> NoAnn]
    /\ lsPause = [p \in PodIds |-> NoAnn]
    /\ op = NoOp
    /\ podExecutions = EmptyCache
    /\ atlas = <<>>
    /\ upserts = <<>>

InitHooks == InitFrom(HookPods)

NextHooks ==
    \/ HostTakes
    \/ \E p \in PodIds : Sync(p)
    \/ \E p \in PodIds : Kubelet(p)
    \/ \E w \in PodIds : DoPreFilter(w)
    \/ \E w \in PodIds, n \in Nodes : DoFilter(w, n)
    \/ \E w \in PodIds : DoPostFilter(w)

SpecHooks == InitHooks /\ [][NextHooks]_vars

----------------------------------------------------------------------------
(* Claims about PostFilter, checked under SpecHooks *)

\* a step of PostFilter leaves every pod but the one it selected as it was
OnlySelectedTouched ==
    \A p \in PodIds :
        p # op'.ret.pod =>
            /\ apiPause'[p] = apiPause[p]
            /\ lsPause'[p] = lsPause[p]
            /\ (toCacheKey(p) \in DOMAIN pausedPods <=> toCacheKey(p) \in DOMAIN pausedPods')
            /\ toCacheKey(p) \in DOMAIN pausedPods
                  => pausedPods'[toCacheKey(p)] = pausedPods[toCacheKey(p)]

\* C12: the pod PostFilter(W) selects for pausing is never W and has a
\* deadline strictly later than W's (deadlines as the plug-in's deadline
\* manager gives them at the call); no other pod is written.
C12_PausedIsStrictlyLater ==
    [][op'.kind = "postfilter" =>
         /\ OnlySelectedTouched
         /\ op'.ret.pod # 0 =>
               /\ op'.ret.pod # op'.pod
               /\ PluginDeadline(op'.ret.pod) > PluginDeadline(op'.pod)]_vars

\* PostFilter paused a pod while a pod with the deadline of W kept running
\* on a node that was not skipped
C12_Witness ==
    /\ op.kind = "postfilter" /\ op.ret.code = "Success"
    /\ apiPause[op.ret.pod] = "true"
    /\ \E q \in PodIds :
          /\ q # op.pod /\ q # op.ret.pod
          /\ pods[q].node \in Nodes \ op.skip
          /\ pods[q].phase = "Running"
          /\ PluginDeadline(q) = PluginDeadline(op.pod)

\* C13: no pod that carries preemptible=false is ever marked pause-pod=true
\* in the store.
C13_NonPreemptibleNeverPaused ==
    \A p \in PodIds : pods[p].preemptible = "false" => apiPause[p] # "true"

\* the pods of node n that findCandidateOnNode(w, n) looks at
Eligible(w, n) ==
    {q \in PodsOnNode(n) \cup NominatedPodsForNode(n) :
        q # w /\ pods[q].phase # "Paused"}
\* those of the largest deadline
Latest(w, n) ==
    {q \in Eligible(w, n) :
        \A r \in Eligible(w, n) : PluginDeadline(q) >= PluginDeadline(r)}
\* q can be the candidate of node n for w
MayBeCandidate(w, n, q) ==
    /\ q \in Latest(w, n)
    /\ PluginDeadline(q) > PluginDeadline(w)
    /\ Fits(w, Eligible(w, n) \ {q})
\* node n has a candidate for w in whatever order its pods are listed
HasCandidate(w, n) ==
    /\ Latest(w, n) # {}
    /\ \A q \in Latest(w, n) : MayBeCandidate(w, n, q)

WriteAccepted(o) ==
    o.ret.pod # 0 /\ o.fail = "none" /\ ~AnnotationsNil(lsPause, o.ret.pod)

\* C15: PostFilter nominates a node exactly when its pause write succeeded,
\* and then the node is the one of the pod it paused; when no node yields a
\* candidate it returns UnschedulableAndUnresolvable and writes nothing; when
\* the pause write fails it returns an error and nominates no node.
C15_NominatedIffPaused ==
    [][op'.kind = "postfilter" =>
         /\ op'.ret.node # NoNode <=> WriteAccepted(op')
         /\ op'.ret.code = "Success" <=> WriteAccepted(op')
         /\ WriteAccepted(op') =>
               /\ apiPause'[op'.ret.pod] = "true"
               /\ Listed(pausedPods', op'.ret.pod, now')
               /\ pausedPods'[toCacheKey(op'.ret.pod)].v = op'.ret.node
               /\ op'.ret.pod \in PodsOnNode(op'.ret.node)
                                      \cup NominatedPodsForNode(op'.ret.node)
         /\ (op'.fail # "errList" /\ \A n \in Nodes \ op'.skip :
                                         \A q \in PodIds : ~MayBeCandidate(op'.pod, n, q)) =>
               /\ op'.ret.code = "UnschedulableAndUnresolvable"
               /\ apiPause' = apiPause /\ lsPause' = lsPause
               /\ pausedPods' = pausedPods /\ pmDeadlines' = pmDeadlines
         /\ (op'.ret.pod # 0 /\ op'.fail \in {"errGet", "errUpdate"}
                             /\ ~AnnotationsNil(lsPause, op'.ret.pod)) =>
               /\ op'.ret.code = "Error" /\ op'.ret.node = NoNode
               /\ apiPause' = apiPause /\ pausedPods' = pausedPods]_vars

\* PostFilter returned an error for a refused write: the selected pod is
\* marked on the lister's object only
C15_Witness ==
    /\ op.kind = "postfilter" /\ op.ret.code = "Error" /\ op.fail = "errUpdate"
    /\ op.ret.pod # 0 /\ op.ret.node = NoNode
    /\ lsPause[op.ret.pod] = "true" /\ apiPause[op.ret.pod] = NoAnn
    /\ toCacheKey(op.ret.pod) \notin DOMAIN pausedPods

\* the store, the lister's objects, the paused map and the manager's
\* deadlines are what they were before the step
NothingWritten ==
    /\ apiPause' = apiPause /\ lsPause' = lsPause
    /\ pausedPods' = pausedPods /\ pmDeadlines' = pmDeadlines

\* C16: Filter returns UnschedulableAndUnresolvable whenever the pod already
\* has a non-empty node binding that is not the given node, and then it
\* resumes nothing and writes nothing.
C16_BoundElsewhereRejected ==
    [][(op'.kind = "filter" /\ pods[op'.pod].node \notin {NoNode, op'.node}) =>
         /\ op'.ret.code = "UnschedulableAndUnresolvable"
         /\ NothingWritten]_vars

\* Filter rejected a pod bound to another node although the given node has a
\* paused pod of an earlier deadline registered
C16_Witness ==
    /\ op.kind = "filter" /\ pods[op.pod].node \notin {NoNode, op.node}
    /\ op.ret.code = "UnschedulableAndUnresolvable"
    /\ op.found # 0 /\ op.fail = "none"
    /\ PluginDeadline(op.found) < PluginDeadline(op.pod)
    /\ IsPodMarkedPaused(lsPause, op.found)
    /\ Listed(pausedPods, op.found, now)

\* the resume of the pod by ResumeCandidate goes through: the store hands
\* the pod out, the pod is marked and the store takes the write
ResumeAccepted(o) == o.fail = "none" /\ IsPodMarkedPaused(lsPause, o.found)

\* the status of the resource check
FitCodes == {"Success", "Unschedulable"}

\* C17: Filter, for a pod that is not bound to another node, resumes the
\* paused pod registered for the node only when the deadline of that pod is
\* strictly before the deadline of the pod it is called for; when the resume
\* succeeds it returns UnschedulableAndUnresolvable, when the resume fails it
\* goes on to the resource check, and when the deadline of the registered
\* pod is not before, it writes nothing and the pod stays registered.
C17_ResumeOnlyEarlier ==
    [][(op'.kind = "filter" /\ pods[op'.pod].node \in {NoNode, op'.node}) =>
         /\ ~NothingWritten =>
               /\ op'.found # 0
               /\ PluginDeadline(op'.found) < PluginDeadline(op'.pod)
         /\ (op'.found # 0 /\ PluginDeadline(op'.found) < PluginDeadline(op'.pod)) =>
               IF ResumeAccepted(op')
               THEN /\ op'.ret.code = "UnschedulableAndUnresolvable"
                    /\ apiPause'[op'.found] = "false"
                    /\ ~Listed(pausedPods', op'.found, now')
                    /\ \A q \in PodIds \ {op'.found} :
                          /\ apiPause'[q] = apiPause[q]
                          /\ Listed(pausedPods', q, now') <=> Listed(pausedPods, q, now)
               ELSE /\ op'.ret.code \in FitCodes
                    /\ NothingWritten
         /\ (op'.found # 0 /\ PluginDeadline(op'.found) >= PluginDeadline(op'.pod)) =>
               /\ NothingWritten
               /\ Listed(pausedPods', op'.found, now')
               /\ op'.ret.code \in FitCodes]_vars

\* Filter resumed the paused pod of the node, whose deadline is before the
\* deadline of the paused pod it was called for
C17_Witness ==
    /\ op.kind = "filter" /\ pods[op.pod].node = op.node
    /\ op.found # 0 /\ op.found # op.pod
    /\ PluginDeadline(op.found) < PluginDeadline(op.pod)
    /\ op.ret.code = "UnschedulableAndUnresolvable"
    /\ apiPause[op.found] = "false"
    /\ ~Listed(pausedPods, op.found, now)
    /\ Listed(pausedPods, op.pod, now)

\* what the pods 1..i that are assigned to the node and are not in the phase
\* paused request
RECURSIVE NonPausedRequest(_, _)
NonPausedRequest(n, i) ==
    IF i = 0 THEN 0
    ELSE NonPausedRequest(n, i - 1)
         + (IF pods[i].node = n /\ pods[i].phase # "Paused" THEN pods[i].req ELSE 0)

\* Filter gets to the resource check: the pod is not bound to another node
\* and no paused pod has been resumed for it
ReachesFitCheck(o) ==
    /\ pods[o.pod].node \in {NoNode, o.node}
    /\ ~(/\ o.found # 0
          /\ PluginDeadline(o.found) < PluginDeadline(o.pod)
          /\ ResumeAccepted(o))

\* C18: when Filter gets to the resource check it returns success exactly
\* when the request of the pod and the requests of the pods of the node that
\* are not in the phase paused are within the capacity of the node, and
\* Unschedulable otherwise: paused pods do not count.
C18_PausedDoNotCount ==
    [][op'.kind = "filter" =>
         /\ ReachesFitCheck(op') <=> op'.ret.code \in FitCodes
         /\ ReachesFitCheck(op') =>
               (op'.ret.code = "Success"
                   <=> pods[op'.pod].req + NonPausedRequest(op'.node, NumPods)
                          <= NodeCapacity)]_vars

\* Filter let a pod pass that fits on the node only because a pod of the
\* node is in the phase paused
C18_Witness ==
    /\ op.kind = "filter" /\ op.ret.code = "Success"
    /\ pods[op.pod].node = NoNode
    /\ \E q \in PodsOnNode(op.node) :
          /\ pods[q].phase = "Paused"
          /\ pods[op.pod].req + NonPausedRequest(op.node, NumPods) + pods[q].req
                > NodeCapacity

\* C19: PreFilter returns Continue only for a pod that is not marked
\* pause-pod=true, and then the deadline of the pod is in the cache of the
\* plug-in and nothing is written to the store; for a pod that is marked it
\* always returns Skip or UnschedulableAndUnresolvable.
C19_ContinueOnlyUnmarked ==
    [][op'.kind = "prefilter" =>
         /\ op'.ret.code = "Continue" =>
               /\ ~IsPodMarkedPaused(lsPause, op'.pod)
               /\ FoundAt(podDeadlines', UID(op'.pod), now')
               /\ podDeadlines'[UID(op'.pod)].v = PluginDeadline(op'.pod)
               /\ NothingWritten
         /\ IsPodMarkedPaused(lsPause, op'.pod) =>
               op'.ret.code \in {"Skip", "UnschedulableAndUnresolvable"}]_vars

\* PreFilter was called for a marked pod that came back from the queue (it
\* is not in the waiting set of the host) and is bound to a node for which
\* another pod holds the entry of the paused map
OtherHoldsEntry(o) ==
    /\ o.kind = "prefilter"
    /\ IsPodMarkedPaused(lsPause, o.pod)
    /\ pods[o.pod].node # NoNode /\ ~o.waiting
    /\ o.found # 0 /\ o.found # o.pod

\* C20: when PreFilter is called for a pod marked pause-pod=true and bound
\* to a node while another pod holds the entry of the paused map for that
\* node, it returns UnschedulableAndUnresolvable, the pod stays marked, and
\* the store and the paused map are not changed.
C20_OtherHolderRejects ==
    [][OtherHoldsEntry(op') =>
         /\ op'.ret.code = "UnschedulableAndUnresolvable"
         /\ IsPodMarkedPaused(lsPause', op'.pod)
         /\ NothingWritten]_vars

\* C21: when the pod PreFilter is called for is marked pause-pod=true and is
\* in the waiting set of the host or in the phase pending, PreFilter returns
\* Skip and attempts no resume: the annotations, the paused map and the
\* deadlines are what they were.
C21_WaitingSkips ==
    [][(/\ op'.kind = "prefilter"
        /\ IsPodMarkedPaused(lsPause, op'.pod)
        /\ (op'.waiting \/ pods[op'.pod].phase = "Pending")) =>
         /\ op'.ret.code = "Skip"
         /\ NothingWritten
         /\ podDeadlines' = podDeadlines]_vars

\* PreFilter skipped a marked pod of the waiting set that holds the entry of
\* its node and that the store would have let resume
C21_Witness ==
    /\ op.kind = "prefilter" /\ op.waiting /\ op.fail = "none"
    /\ op.ret.code = "Skip" /\ op.found = op.pod
    /\ pods[op.pod].phase = "Paused"
    /\ IsPodMarkedPaused(lsPause, op.pod) /\ apiPause[op.pod] = "true"
    /\ Listed(pausedPods, op.pod, now)

\* C22: every call of PreFilter, Filter and PostFilter returns a status and
\* never ends in a panic, whatever the pods and the store are: also when the
\* lister no longer holds the pod and when the pod to pause has no
\* annotations at all.
C22_HooksNeverPanic == HookReturned => op.ret.code # "panic"

\* the pod of the call is marked pause-pod=true in the store and registered
\* for the node of the call
AlreadyPaused(p, node) ==
    /\ apiPause[p] = "true"
    /\ Listed(pausedPods, p, now)
    /\ pausedPods[toCacheKey(p)].v = node

\* C25: pause_candidate for a pod that is already marked pause-pod=true and
\* registered for the same node leaves the system as it is: the annotation
\* stays "true" and the paused map holds the same entries, the one of the
\* pod for the same node.  (A call that succeeds starts the time to live of
\* the entry anew.)
C25_PauseAgainIsNoOp ==
    [][(op'.kind = "pause" /\ AlreadyPaused(op'.pod, op'.node)) =>
         /\ apiPause' = apiPause
         /\ \A q \in PodIds \ {op'.pod} : lsPause'[q] = lsPause[q]
         /\ op'.ret = "ok" => lsPause'[op'.pod] = "true"
         /\ DOMAIN pausedPods' = DOMAIN pausedPods
         /\ \A k \in DOMAIN pausedPods : pausedPods'[k].v = pausedPods[k].v
         /\ \A k \in DOMAIN pausedPods \ {toCacheKey(op'.pod)} :
               pausedPods'[k] = pausedPods[k]]_vars

\* a pod without a creation time was paused again an hour after it was
\* registered: its deadline is the one computed at the first call
C25_Witness ==
    /\ op.kind = "pause" /\ op.ret = "ok" /\ now > 1
    /\ pods[op.pod].creation = 0
    /\ AlreadyPaused(op.pod, op.node)
    /\ pausedPods[toCacheKey(op.pod)].exp = now + PausedTTL
    /\ FoundAt(pmDeadlines, UID(op.pod), now)
    /\ pmDeadlines[UID(op.pod)].v < now + defaultDDLRelative

----------------------------------------------------------------------------
(* Claims about the life of the entries, checked under SpecPreemptLive *)

\* the paused map holds an entry for the pod, expired or not
Held(p) == toCacheKey(p) \in DOMAIN pausedPods

\* C23: every entry of the paused map is removed in the end, by a resume
\* that succeeded or by the expiry of its time to live, also when no later
\* operation names the pod.
C23_EntriesRemoved == \A p \in Residents : Held(p) ~> ~Held(p)

\* the janitor swept the entry of a pod that nobody resumed: the pod is
\* still marked pause-pod=true in the store
C23_Witness ==
    /\ op.kind = "janitor"
    /\ \E p \in Residents :
          /\ ~Held(p)
          /\ apiPause[p] = "true" /\ lsPause[p] = "true"

----------------------------------------------------------------------------
(* The cycle specification: the hooks specification with what the host     *)
(* does with the statuses.  It records the node PostFilter nominated on    *)
(* the pod and binds a pod to a node for which Filter returned success; a  *)
(* pod is bound once, and PreFilter lets only pods through that are not    *)
(* marked.                                                                 *)

Nominate(w) ==
    /\ op.kind = "postfilter" /\ op.pod = w /\ op.ret.code = "Success"
    /\ pods' = [pods EXCEPT ![w].nominated = op.ret.node]
    /\ op' = [kind |-> "nominate", pod |-> w, node |-> op.ret.node]
    /\ UNCHANGED <<now, podDeadlines, pmDeadlines, pausedPods, apiPause, lsPause, podExecutions, atlas, upserts>>

Bind(w, n) ==
    /\ op.kind = "filter" /\ op.pod = w /\ op.node = n /\ op.ret.code = "Success"
    /\ pods[w].node = NoNode /\ ~IsPodMarkedPaused(lsPause, w)
    /\ pods' = [pods EXCEPT ![w].node = n, ![w].nominated = NoNode,
                              ![w].phase = "Running"]
    /\ op' = [kind |-> "bind", pod |-> w, node |-> n]
    /\ UNCHANGED <<now, podDeadlines, pmDeadlines, pausedPods, apiPause, lsPause, podExecutions, atlas, upserts>>

\* the preemption scenario: two nodes that a pod of request 2 fills, the
\* first with a pod of a later deadline than the arrival, the second with a
\* pod of the deadline of the arrival
CyclePods ==
    { << HookPod(LoosePod, "n1", NoNode, "Running", 2, NoAnn),
         HookPod(TightPod, "n2", NoNode, "Running", 2, NoAnn),
         HookPod(TightPod, NoNode, NoNode, "Pending", 2, NoAnn) >> }

InitCycle == InitFrom(CyclePods)

NextCycle ==
    \/ NextHooks
    \/ \E w \in PodIds : Nominate(w)
    \/ \E w \in PodIds, n \in Nodes : Bind(w, n)

SpecCycle == InitCycle /\ [][NextCycle]_vars

(* Claims about the scheduling cycles, checked under SpecCycle *)

\* the pod w is not bound, has the node of r nominated and an earlier
\* deadline than r, and r is paused for it: marked in the store and
\* registered for its node
WaitsFor(w, r) ==
    /\ pods[w].node = NoNode /\ pods[r].node # NoNode
    /\ pods[w].nominated = pods[r].node
    /\ PluginDeadline(w) < PluginDeadline(r)
    /\ apiPause[r] = "true" /\ Held(r)
    /\ pausedPods[toCacheKey(r)].v = pods[r].node

\* C24: scenario P1.  When a node hosts a running pod R and a pod W of a
\* strictly earlier deadline fits on the node only once R is left out,
\* PostFilter pauses R and nominates the node for W, W is bound to the node
\* in a later cycle, and R is not resumed before W is bound.  The formula is
\* the last part: while W is not bound, R stays marked pause-pod=true.
C24_PausedUntilBound ==
    [][\A w, r \in PodIds : WaitsFor(w, r) => apiPause'[r] = "true"]_vars

\* the node of the bound pod r has no room for r next to its other pods
\* that are not paused
NoRoomToResume(r) ==
    /\ pods[r].node # NoNode
    /\ pods[r].req + Requested(UnpausedPods(pods[r].node) \ {r}) > NodeCapacity

\* C30: PreFilter does not resume a pod marked pause-pod=true whose node has
\* no room for it: the pod stays marked pause-pod=true in the store and in
\* the lister.
C30_NoResumeWithoutRoom ==
    [][(/\ op'.kind = "prefilter"
        /\ IsPodMarkedPaused(lsPause, op'.pod)
        /\ apiPause[op'.pod] = "true"
        /\ NoRoomToResume(op'.pod))
          => /\ apiPause'[op'.pod] = "true"
             /\ lsPause'[op'.pod] = lsPause[op'.pod]]_vars

----------------------------------------------------------------------------
(* The laxity manager (pkg/rtpreemptive/laxity).  The execution record of  *)
(* a pod (podExecution) has the deadline, the estimated execution time,    *)
(* the execution time accumulated so far, the instant of the last start    *)
(* and the state.  The estimates of the ATLAS solver are inputs.           *)

\* a bound of the clock of the laxity specification
MaxLaxNow == 4

Abs(x) == IF x < 0 THEN 0 - x ELSE x
Max(x, y) == IF x < y THEN y ELSE x

\* getPodExecutionTime(pod): the exec-time annotation, 0 when it does not parse
getPodExecutionTime(p) ==
    IF ParseDuration(pods[p].exec).err THEN 0 ELSE ParseDuration(pods[p].exec).d

\* getATLASEnabled(pod)
getATLASEnabled(p) == pods[p].atlas = "true"

\* getPodMetrics(pod): requests and limits (none here), the relative
\* deadline when it parses, the job index (none), no additional metrics
getPodMetrics(p) ==
    <<0, 0, 0, 0>>
        \o (IF ParseDuration(pods[p].ddl).err THEN <<>>
                                               ELSE <<ParseDuration(pods[p].ddl).d>>)
        \o <<0>>

\* what atlas.Add is given
Observation(p, d) == [metrics |-> getPodMetrics(p), actualExecTime |-> d]

\* math.Abs(float64(execTime-estExecTime))/float64(execTime) > 0.6, for an
\* execTime that is not 0
Deviates(execTime, estExecTime) ==
    IF execTime < 0 THEN FALSE
    ELSE 10 * Abs(execTime - estExecTime) > 6 * execTime

\* createPodExecutionIfNotExist(pod) at time t; e1 and e2 are what
\* atlas.EstimateExecTime returns before and after the declared time is
\* added.  The records and the observations added to the predictor.
createPodExecutionIfNotExist(execs, p, t, e1, e2) ==
    LET key == toCacheKey(p)
        execTime == getPodExecutionTime(p)
        outlier == getATLASEnabled(p) /\ execTime # 0 /\ Deviates(execTime, e1)
        estExecTime == IF ~getATLASEnabled(p) THEN execTime
                       ELSE IF outlier THEN e2 ELSE e1
        podExec == [deadline |-> GetPodDeadline(EmptyCache, p, t),
                    estExecTime |-> estExecTime, actualExecTime |-> 0,
                    lastStart |-> 0, running |-> FALSE]
    IN  IF key \in DOMAIN execs THEN [execs |-> execs, added |-> <<>>]
        ELSE [execs |-> [k \in DOMAIN execs \cup {key} |->
                            IF k = key THEN podExec ELSE execs[k]],
              added |-> IF outlier THEN <<Observation(p, execTime)>> ELSE <<>>]

\* podExecution.start(): running from now on, the start recorded when the
\* execution was new or paused
start(e, t) == IF e.running THEN e ELSE [e EXCEPT !.lastStart = t, !.running = TRUE]

\* podExecution.pause(): the time since the last start is added to the
\* accumulated execution time
pause(e, t) ==
    IF e.running
    THEN [e EXCEPT !.actualExecTime = e.actualExecTime + (t - e.lastStart),
                   !.running = FALSE]
    ELSE e

\* podExecution.laxity(): ErrBeyondEstimation when the accumulated time is
\* above the estimate; the value is then either of the two forms the
\* description gives (clamp: the remaining work is not below 0)
laxity(e, t, clamp) ==
    LET remaining == e.estExecTime - e.actualExecTime
    IN  [err |-> e.actualExecTime > e.estExecTime,
         value |-> e.deadline - t - (IF clamp THEN Max(0, remaining) ELSE remaining)]

\* laxityManager.StartPodExecution(pod)
StartPodExecution(execs, p, t, e1, e2) ==
    LET c == createPodExecutionIfNotExist(execs, p, t, e1, e2)
    IN  [execs |-> [c.execs EXCEPT ![toCacheKey(p)] = start(@, t)], added |-> c.added]

\* mutant: the execution is not paused
PausePodExecution_NoFold(execs, p, t, e1, e2) ==
    LET c == createPodExecutionIfNotExist(execs, p, t, e1, e2)
    IN  [execs |-> [c.execs EXCEPT ![toCacheKey(p)].running = FALSE],
         added |-> c.added]

\* laxityManager.PausePodExecution(pod)
PausePodExecution(execs, p, t, e1, e2) ==
    LET c == createPodExecutionIfNotExist(execs, p, t, e1, e2)
    IN  [execs |-> [c.execs EXCEPT ![toCacheKey(p)] = pause(@, t)], added |-> c.added]

\* mutant: the predictor is not told
GetPodLaxity_NoFeedback(execs, p, t, e1, e2, clamp) ==
    LET c == createPodExecutionIfNotExist(execs, p, t, e1, e2)
        r == laxity(c.execs[toCacheKey(p)], t, clamp)
    IN  [ret |-> r.value, err |-> r.err, execs |-> c.execs, added |-> c.added]

\* laxityManager.GetPodLaxity(pod)
GetPodLaxity(execs, p, t, e1, e2, clamp) ==
    LET c == createPodExecutionIfNotExist(execs, p, t, e1, e2)
        podExec == c.execs[toCacheKey(p)]
        r == laxity(podExec, t, clamp)
    IN  [ret |-> r.value, err |-> r.err, execs |-> c.execs,
         added |-> IF r.err
                   THEN Append(c.added, Observation(p, podExec.actualExecTime))
                   ELSE c.added]

\* laxityManager.RemovePodExecution(pod)
RemovePodExecution(execs, p, t, e1, e2) ==
    LET c == createPodExecutionIfNotExist(execs, p, t, e1, e2)
        podExec == pause(c.execs[toCacheKey(p)], t)
    IN  [execs |-> [k \in DOMAIN c.execs \ {toCacheKey(p)} |-> c.execs[k]],
         added |-> Append(c.added, Observation(p, podExec.actualExecTime))]

----------------------------------------------------------------------------
(* The laxity specification: a pod with a declared execution time, and a   *)
(* pod whose execution time the predictor estimates.                       *)

\* what the solver may estimate
Estimates == {0 - 1, 1, 2}
\* the estimates that a call for the pod may see: the solver is asked only
\* when the call creates the record of a pod that has ATLAS enabled
EstimatesFor(p) ==
    IF toCacheKey(p) \in DOMAIN podExecutions \/ ~getATLASEnabled(p)
    THEN {0} ELSE Estimates
\* the pods whose execution is tracked
LaxSubjects == {1, 2}

LaxPod(exec, atlasEnabled) ==
    [prio |-> 0, creation |-> 1, ddl |-> "20m", other |-> TRUE,
     exec |-> exec, atlas |-> atlasEnabled]

\* the predictor after the observations were added
Fed(a, added) == IF Len(added) = 0 THEN a ELSE added[Len(added)]

\* the execution of the pod is recorded as running
Running(p) ==
    /\ toCacheKey(p) \in DOMAIN podExecutions
    /\ podExecutions[toCacheKey(p)].running

LaxTick ==
    /\ now < MaxLaxNow
    /\ now' = now + 1
    /\ op' = [kind |-> "tick"]
    /\ UNCHANGED <<pods, podDeadlines, pmDeadlines, pausedPods, apiPause, lsPause,
                   podExecutions, atlas, upserts>>

StartCall(p) ==
    \E e1 \in EstimatesFor(p), e2 \in EstimatesFor(p) :
        LET r == StartPodExecution(podExecutions, p, now, e1, e2)
        IN  /\ podExecutions' = r.execs
            /\ atlas' = Fed(atlas, r.added)
            /\ op' = [kind |-> "start", pod |-> p, added |-> r.added]
            /\ UNCHANGED <<now, pods, podDeadlines, pmDeadlines, pausedPods,
                           apiPause, lsPause, upserts>>

PauseCall(p) ==
    \E e1 \in EstimatesFor(p), e2 \in EstimatesFor(p) :
        LET r == PausePodExecution(podExecutions, p, now, e1, e2)
        IN  /\ podExecutions' = r.execs
            /\ atlas' = Fed(atlas, r.added)
            /\ op' = [kind |-> "pauseexec", pod |-> p, added |-> r.added,
                      ran |-> IF Running(p) THEN now - podExecutions[toCacheKey(p)].lastStart
                                            ELSE 0]
            /\ UNCHANGED <<now, pods, podDeadlines, pmDeadlines, pausedPods,
                           apiPause, lsPause, upserts>>

LaxityCall(p) ==
    \E e1 \in EstimatesFor(p), e2 \in EstimatesFor(p), clamp \in BOOLEAN :
        LET r == GetPodLaxity(podExecutions, p, now, e1, e2, clamp)
        IN  /\ podExecutions' = r.execs
            /\ atlas' = Fed(atlas, r.added)
            /\ op' = [kind |-> "laxity", pod |-> p, added |-> r.added,
                      ret |-> r.ret, err |-> r.err, estimate |-> e1,
                      created |-> toCacheKey(p) \notin DOMAIN podExecutions]
            /\ UNCHANGED <<now, pods, podDeadlines, pmDeadlines, pausedPods,
                           apiPause, lsPause, upserts>>

RemoveExecCall(p) ==
    \E e1 \in EstimatesFor(p), e2 \in EstimatesFor(p) :
        LET r == RemovePodExecution(podExecutions, p, now, e1, e2)
        IN  /\ podExecutions' = r.execs
            /\ atlas' = Fed(atlas, r.added)
            /\ op' = [kind |-> "removeexec", pod |-> p, added |-> r.added]
            /\ UNCHANGED <<now, pods, podDeadlines, pmDeadlines, pausedPods,
                           apiPause, lsPause, upserts>>

InitLaxity ==
    /\ now = 1
    /\ pods = [p \in PodIds |->
                 IF p = 1 THEN LaxPod("20m", NoAnn) ELSE LaxPod("20m", "true")]
    /\ podDeadlines = EmptyCache
    /\ pmDeadlines = EmptyCache
    /\ pausedPods = EmptyCache
    /\ apiPause = [p \in PodIds |-> NoAnn]
    /\ lsPause = [p \in PodIds |-> NoAnn]
    /\ op = NoOp
    /\ podExecutions = EmptyCache
    /\ atlas = <<>>
    /\ upserts = <<>>

NextLaxity ==
    \/ LaxTick
    \/ \E p \in LaxSubjects : StartCall(p)
    \/ \E p \in LaxSubjects : PauseCall(p)
    \/ \E p \in LaxSubjects : LaxityCall(p)
    \/ \E p \in LaxSubjects : RemoveExecCall(p)

SpecLaxity == InitLaxity /\ [][NextLaxity]_vars

----------------------------------------------------------------------------
(* Claims about the laxity manager.                                        *)

\* the record that a call of GetPodLaxity for p has read
ReadExec(p) == podExecutions'[toCacheKey(p)]

\* the call answered with the error exactly when the accumulated time is
\* above the estimate, and then fed the accumulated time to the predictor
BeyondReported(p) ==
    /\ op'.err <=> ReadExec(p).actualExecTime > ReadExec(p).estExecTime
    /\ op'.err =>
          /\ Len(op'.added) > 0
          /\ atlas' = Observation(p, ReadExec(p).actualExecTime)
          /\ op'.ret \in Int
    /\ ~op'.err =>
          op'.ret = ReadExec(p).deadline - now
                      - (ReadExec(p).estExecTime - ReadExec(p).actualExecTime)

\* the call created the record of a pod with ATLAS enabled whose declared
\* execution time is more than 60% away from the estimate, and added the
\* declared time to the predictor
AddedDeclared(p) ==
    /\ op'.created
    /\ getATLASEnabled(p)
    /\ getPodExecutionTime(p) # 0
    /\ Deviates(getPodExecutionTime(p), op'.estimate)
    /\ op'.added = <<Observation(p, getPodExecutionTime(p))>>
    /\ atlas' = Observation(p, getPodExecutionTime(p))

\* C26 as stated: GetPodLaxity answers ErrBeyondEstimation exactly when the
\* accumulated execution time is above the estimate, then feeds (metrics,
\* accumulated time) to the predictor and still returns a value; otherwise
\* it returns deadline - now - (estimate - accumulated) and the predictor is
\* not updated.
C26_FeedsOnlyBeyond ==
    [][\A p \in PodIds :
         (op'.kind = "laxity" /\ op'.pod = p) =>
            /\ BeyondReported(p)
            /\ ~op'.err => (op'.added = <<>> /\ atlas' = atlas)]_vars

\* C26 amended: as above, but without an error the predictor is updated in
\* one case: the call created the record of a pod with ATLAS enabled whose
\* declared execution time deviates by more than 60% from the estimate, and
\* then (metrics, declared time) was added.
C26_FeedsBeyondOrDeclared ==
    [][\A p \in PodIds :
         (op'.kind = "laxity" /\ op'.pod = p) =>
            /\ BeyondReported(p)
            /\ ~op'.err => ((op'.added = <<>> /\ atlas' = atlas) \/ AddedDeclared(p))]_vars

\* C26 witness: a pod that ran beyond its estimate was asked for its laxity
\* and the predictor has the accumulated time
C26_Witness ==
    /\ op.kind = "laxity"
    /\ op.err
    /\ ~op.created
    /\ podExecutions[toCacheKey(op.pod)].actualExecTime > 0
    /\ atlas = Observation(op.pod, podExecutions[toCacheKey(op.pod)].actualExecTime)

\* the records as they were when the running pod p was started
BeforeStart(p) == [podExecutions EXCEPT ![toCacheKey(p)].running = FALSE]

\* the laxity read when the running pod p was started, and the one read
\* after the pause that the step has made
LaxityBeforeStart(p, clamp) ==
    GetPodLaxity(BeforeStart(p), p, podExecutions[toCacheKey(p)].lastStart, 0, 0, clamp)
LaxityAfterPause(p, clamp) == GetPodLaxity(podExecutions', p, now', 0, 0, clamp)

\* C27 as stated: when a started pod is paused, the laxity read after the
\* pause is the laxity read before the start minus the time it has run.
C27_RoundTripMinusElapsed ==
    [][\A p \in PodIds, clamp \in BOOLEAN :
         (op'.kind = "pauseexec" /\ op'.pod = p /\ Running(p)) =>
            LaxityAfterPause(p, clamp).ret
                = LaxityBeforeStart(p, clamp).ret - op'.ran]_vars

\* C27 amended: when a started pod is paused and its accumulated execution
\* time is not above the estimate, the laxity read after the pause is the
\* laxity read before the start.
C27_RoundTripSame ==
    [][\A p \in PodIds, clamp \in BOOLEAN :
         (/\ op'.kind = "pauseexec" /\ op'.pod = p /\ Running(p)
          /\ ~LaxityAfterPause(p, clamp).err) =>
            LaxityAfterPause(p, clamp).ret = LaxityBeforeStart(p, clamp).ret]_vars

\* C27 witness: a pod was paused after it ran for some time within its
\* estimate
C27_Witness ==
    /\ op.kind = "pauseexec"
    /\ op.ran > 0
    /\ ~podExecutions[toCacheKey(op.pod)].running
    /\ podExecutions[toCacheKey(op.pod)].actualExecTime >= op.ran
    /\ podExecutions[toCacheKey(op.pod)].actualExecTime
          <= podExecutions[toCacheKey(op.pod)].estExecTime

----------------------------------------------------------------------------
(* Further claims about PostFilter, checked under SpecHooks *)

\* the pod is a resident of the node or nominated for it
OnNode(p, n) == pods[p].node = n \/ pods[p].nominated = n

\* what the pods 1..i of node n request, the pods w and r and the pods in
\* the phase paused left out
RECURSIVE RequestWithout(_, _, _, _)
RequestWithout(w, r, n, i) ==
    IF i = 0 THEN 0
    ELSE RequestWithout(w, r, n, i - 1)
         + (IF OnNode(i, n) /\ i # w /\ i # r /\ pods[i].phase # "Paused"
            THEN pods[i].req ELSE 0)

\* w fits on node n when r is taken away
FitsWithout(w, r, n) ==
    pods[w].req + RequestWithout(w, r, n, NumPods) <= NodeCapacity

\* the pods of node n that are not paused and are not w, none of them with
\* a later deadline than q
Slackest(w, n, q) ==
    /\ OnNode(q, n) /\ q # w /\ pods[q].phase # "Paused"
    /\ \A x \in PodIds :
          (OnNode(x, n) /\ x # w /\ pods[x].phase # "Paused")
              => PluginDeadline(x) <= PluginDeadline(q)

\* C28: PostFilter selects a pod R of node N for pausing only if W fits on N
\* next to the residents and nominated pods of N other than R, W and the
\* paused pods; when W does not fit with the pod of the latest deadline of N
\* taken away, no pod of N is selected and none is written.
C28_PausesOnlyIfFits ==
    [][op'.kind = "postfilter" =>
         /\ op'.ret.pod # 0 =>
               \E n \in Nodes :
                   OnNode(op'.ret.pod, n) /\ FitsWithout(op'.pod, op'.ret.pod, n)
         /\ \A n \in Nodes :
               (/\ \E q \in PodIds : Slackest(op'.pod, n, q)
                /\ \A q \in PodIds :
                      Slackest(op'.pod, n, q) => ~FitsWithout(op'.pod, q, n))
                  => \A r \in PodIds :
                        OnNode(r, n) =>
                            /\ op'.ret.pod # r
                            /\ apiPause'[r] = apiPause[r]]_vars

\* PostFilter paused a pod of a node that has another pod running, and the
\* pod under consideration fills the node exactly
C28_Witness ==
    /\ op.kind = "postfilter" /\ op.ret.code = "Success"
    /\ apiPause[op.ret.pod] = "true"
    /\ \E q \in PodsOnNode(op.ret.node) :
          /\ q # op.ret.pod /\ pods[q].phase # "Paused"
          /\ pods[op.pod].req + RequestWithout(op.pod, op.ret.pod, op.ret.node, NumPods)
                = NodeCapacity

\* C29: PostFilter selects and writes no resident of a node that the status
\* map has as UnschedulableAndUnresolvable; and Filter answers with that
\* status for the node when it has resumed a paused pod of it, so that the
\* PostFilter that gets this status pauses nothing on that node.
C29_SkippedNodesUntouched ==
    [][/\ op'.kind = "postfilter" =>
            /\ op'.ret.node \notin op'.skip
            /\ \A n \in op'.skip : \A r \in PodsOnNode(n) :
                  /\ op'.ret.pod # r
                  /\ apiPause'[r] = apiPause[r]
                  /\ lsPause'[r] = lsPause[r]
       /\ (/\ op'.kind = "filter"
           /\ \E r \in PodIds : apiPause[r] = "true" /\ apiPause'[r] = "false")
              => op'.ret.code = "UnschedulableAndUnresolvable"]_vars

\* PostFilter paused a pod of one node while the node it skipped has a
\* running pod of a later deadline than the pod under consideration, which
\* would fit there without it
C29_Witness ==
    /\ op.kind = "postfilter" /\ op.ret.code = "Success"
    /\ apiPause[op.ret.pod] = "true"
    /\ \E n \in op.skip : \E r \in PodsOnNode(n) :
          /\ pods[r].phase = "Running"
          /\ apiPause[r] # "true"
          /\ PluginDeadline(r) > PluginDeadline(op.pod)
          /\ FitsWithout(op.pod, r, n)

----------------------------------------------------------------------------
(* Concurrent upserts.  Less is called by several goroutines of the queue; *)
(* AddPodDeadline (deadline_manager.go:63-67) reads the cache and then     *)
(* stores, and gocache locks each of the two calls on its own.  A caller   *)
(* is idle, has read (GetPodDeadline has returned), or is done (Set has    *)
(* returned and the deadline is handed to Less).                           *)

\* the number of concurrent callers
NumCallers == 2
\* a bound of the clock of this specification, within the entries' time to live
MaxUpsertNow == 3

Callers == 1..NumCallers
\* the pods that Less is called for
UpsertPods == {1, 2}

IdleCaller == [pc |-> "idle"]

\* a caller enters AddPodDeadline(pod)
UpsertEnter(c, p) ==
    /\ upserts[c].pc = "idle"
    /\ upserts' = [upserts EXCEPT ![c] = [pc |-> "entered", pod |-> p]]
    /\ op' = [kind |-> "enter", caller |-> c]
    /\ UNCHANGED <<now, pods, podDeadlines, pmDeadlines, pausedPods, apiPause,
                   lsPause, podExecutions, atlas>>

\* ddl := m.GetPodDeadline(pod)
UpsertRead(c) ==
    /\ upserts[c].pc = "entered"
    /\ upserts' = [upserts EXCEPT ![c] =
                      [pc |-> "read", pod |-> upserts[c].pod,
                       ddl |-> GetPodDeadline(podDeadlines, upserts[c].pod, now)]]
    /\ op' = [kind |-> "read", caller |-> c]
    /\ UNCHANGED <<now, pods, podDeadlines, pmDeadlines, pausedPods, apiPause,
                   lsPause, podExecutions, atlas>>

\* m.podDeadlines.Set(string(pod.UID), ddl, time.Hour); return ddl
UpsertStore(c) ==
    /\ upserts[c].pc = "read"
    /\ podDeadlines' = CacheSet(podDeadlines, UID(upserts[c].pod), upserts[c].ddl,
                                now, DeadlineTTL)
    /\ upserts' = [upserts EXCEPT ![c] =
                      [pc |-> "done", pod |-> upserts[c].pod,
                       ddl |-> upserts[c].ddl, ret |-> upserts[c].ddl]]
    /\ op' = [kind |-> "store", caller |-> c]
    /\ UNCHANGED <<now, pods, pmDeadlines, pausedPods, apiPause, lsPause,
                   podExecutions, atlas>>

UpsertTick ==
    /\ now < MaxUpsertNow
    /\ now' = now + 1
    /\ op' = [kind |-> "tick"]
    /\ UNCHANGED <<pods, podDeadlines, pmDeadlines, pausedPods, apiPause, lsPause,
                   podExecutions, atlas, upserts>>

\* a pod without a creation timestamp and a pod with one
InitUpsert ==
    /\ now = 1
    /\ pods = [p \in PodIds |-> IF p = 1 THEN UndatedPod ELSE TightPod]
    /\ podDeadlines = EmptyCache
    /\ pmDeadlines = EmptyCache
    /\ pausedPods = EmptyCache
    /\ apiPause = [p \in PodIds |-> NoAnn]
    /\ lsPause = [p \in PodIds |-> NoAnn]
    /\ op = NoOp
    /\ podExecutions = EmptyCache
    /\ atlas = <<>>
    /\ upserts = [c \in Callers |-> IdleCaller]

NextUpsert ==
    \/ UpsertTick
    \/ \E c \in Callers, p \in UpsertPods : UpsertEnter(c, p)
    \/ \E c \in Callers : UpsertRead(c)
    \/ \E c \in Callers : UpsertStore(c)

SpecUpsert == InitUpsert /\ [][NextUpsert]_vars

(* The claim about concurrent upserts, checked under SpecUpsert *)

\* the caller has returned from AddPodDeadline for the pod
Returned(c, p) == upserts[c].pc = "done" /\ upserts[c].pod = p

\* C31: the upserts that several callers make for one UID at the same time
\* all return the same deadline, and the cache holds that deadline.
C31_OneDeadlinePerUID ==
    \A c1 \in Callers, c2 \in Callers, p \in UpsertPods :
        (Returned(c1, p) /\ Returned(c2, p)) =>
            /\ upserts[c1].ret = upserts[c2].ret
            /\ podDeadlines[UID(p)].v = upserts[c1].ret

----------------------------------------------------------------------------
(* The ATLAS predictor (pkg/rtpreemptive/predictor/atlas_predictor.go).    *)
(* Add and EstimateExecTime hand the solver a pointer to the first entry   *)
(* of padMetrics(metrics); the solver reads as many entries as it was      *)
(* built for.                                                              *)

\* PredictorMetricSize, what NewATLASPredictor is built with
PredictorMetricSize == 10
\* maxSize in padMetrics
MaxFeatureCount == 4
\* the longest feature vector looked at
MaxFeatures == 7

FeatureValues == {1, 2}
\* what a read beyond the end of the vector may give
Garbage == {0, 1}

\* the feature vectors of the lengths 0..n
RECURSIVE Vectors(_)
Vectors(n) ==
    IF n = 0 THEN {<<>>}
    ELSE Vectors(n - 1)
         \cup {Append(v, x) : v \in {u \in Vectors(n - 1) : Len(u) = n - 1},
                               x \in FeatureValues}

\* atlasPredictor.padMetrics(metrics) of a predictor of size msize
padMetrics(metrics, msize) ==
    LET maxSize == IF Len(metrics) < MaxFeatureCount THEN Len(metrics)
                                                     ELSE MaxFeatureCount
        m == SubSeq(metrics, 1, maxSize)
        \* for i := len(metrics) - 1; i < a.msize; i++
        zeros == IF Len(metrics) - 1 < msize THEN msize - (Len(metrics) - 1) ELSE 0
    IN  m \o [i \in 1..zeros |-> 0]

\* what the solver may read through the pointer: msize entries, those past
\* the end of the vector being whatever the memory holds
SolverReads(handed, msize) ==
    LET missing == IF Len(handed) < msize THEN msize - Len(handed) ELSE 0
    IN  {SubSeq(handed \o tail, 1, msize) : tail \in [1..missing -> Garbage]}

\* the pod whose features the predictor is given
PredictedPods == {1}

\* atlasPredictor.Add(metrics, actualExecTime) with the features of the pod
PredictorAdd(p, d) ==
    \E r \in SolverReads(padMetrics(pods[p].features, PredictorMetricSize),
                         PredictorMetricSize) :
        /\ atlas' = [metrics |-> r, actualExecTime |-> d]
        /\ op' = [kind |-> "solveradd", metrics |-> pods[p].features,
                  handed |-> padMetrics(pods[p].features, PredictorMetricSize)]
        /\ UNCHANGED <<now, pods, podDeadlines, pmDeadlines, pausedPods, apiPause,
                       lsPause, podExecutions, upserts>>

\* atlasPredictor.EstimateExecTime(metrics) with the features of the pod:
\* the prediction is the solver's
PredictorEstimate(p) ==
    \E e \in Estimates :
        /\ op' = [kind |-> "solverpredict", metrics |-> pods[p].features,
                  handed |-> padMetrics(pods[p].features, PredictorMetricSize),
                  ret |-> e]
        /\ UNCHANGED <<now, pods, podDeadlines, pmDeadlines, pausedPods, apiPause,
                       lsPause, podExecutions, atlas, upserts>>

\* a predictor just built, and pods with a feature vector of any of the
\* lengths looked at
InitPredictor ==
    /\ now = 1
    /\ \E v \in Vectors(MaxFeatures) :
          pods = [p \in PodIds |->
                    [prio |-> 0, creation |-> 1, ddl |-> NoAnn, other |-> FALSE,
                     features |-> v]]
    /\ podDeadlines = EmptyCache
    /\ pmDeadlines = EmptyCache
    /\ pausedPods = EmptyCache
    /\ apiPause = [p \in PodIds |-> NoAnn]
    /\ lsPause = [p \in PodIds |-> NoAnn]
    /\ op = NoOp
    /\ podExecutions = EmptyCache
    /\ atlas = <<>>
    /\ upserts = <<>>

NextPredictor ==
    \/ \E p \in PredictedPods, d \in 1..2 : PredictorAdd(p, d)
    \/ \E p \in PredictedPods : PredictorEstimate(p)

SpecPredictor == InitPredictor /\ [][NextPredictor]_vars

(* The claim about the predictor, checked under SpecPredictor *)

\* the first min(4, len) features followed by zeros, n entries in all
TruncatedAndPadded(metrics, n) ==
    [i \in 1..n |-> IF i <= MaxFeatureCount /\ i <= Len(metrics) THEN metrics[i] ELSE 0]

\* C32: the vector that Add and EstimateExecTime hand to the solver has
\* exactly PredictorMetricSize entries, the first min(4, len) features
\* followed by zeros, whatever the length of the feature vector.
C32_HandedHasMetricSize ==
    op.kind \in {"solveradd", "solverpredict"} =>
        op.handed = TruncatedAndPadded(op.metrics, PredictorMetricSize)

============================================================================
